---------------------------- MODULE Spec2Model ----------------------------
(***************************************************************************)
(* A model of the duplicate-safe store of the Intel CPU crawler            *)
(* (src/src/database_manager.py) and of the out-of-band code-name backfill *)
(* (src/update_code_names.py).                                             *)
(*                                                                         *)
(* Python values are tagged records: None, int, float and str.  A str is a *)
(* sequence of one-character strings, so that the regular expressions and  *)
(* strip/rstrip calls of the code are computed character by character.     *)
(* A float is kept exactly as its integer part and its fractional digits   *)
(* (trailing zeros dropped); the non-finite floats are inf, -inf and nan.   *)
(***************************************************************************)
EXTENDS Integers, Sequences, FiniteSets, TLC

(***************************************************************************)
(* Bounds of the model.                                                    *)
(***************************************************************************)
NumUrls == 2
NumConns == 2
MaxParts == 3
MaxLabels == 2

(***************************************************************************)
(* Python values.                                                          *)
(***************************************************************************)
None == [t |-> "none"]
Str(s) == [t |-> "str", v |-> s]
PyInt(n) == [t |-> "int", v |-> n]
PyFloat(ip, fp) == [t |-> "float", ip |-> ip, fp |-> fp]
PyInf == [t |-> "inf", negative |-> FALSE]
PyNegInf == [t |-> "inf", negative |-> TRUE]
PyNan == [t |-> "nan"]
Raise(e) == [t |-> "raise", exc |-> e]

\* an exception in place of a value (a row has no column t)
IsRaise(x) == "t" \in DOMAIN x /\ x.t = "raise"

\* bool(value): None, 0, 0.0 and "" are false, everything else is true
Truthy(x) ==
    CASE x.t = "none" -> FALSE
      [] x.t = "int" -> x.v # 0
      [] x.t = "float" -> x.ip # 0 \/ x.fp # <<>>
      [] x.t = "str" -> x.v # <<>>
      [] OTHER -> TRUE

\* dict.get(key): the value, or None when the key is missing
Get(d, k) == IF k \in DOMAIN d THEN d[k] ELSE None

\* dict.get(key, {}) for a nested mapping
EmptyDict == [k \in {} |-> None]
GetDict(d, k) == IF k \in DOMAIN d THEN d[k] ELSE EmptyDict

\* dict.update(other): the keys of other overwrite
Update(d, other) ==
    [k \in DOMAIN d \cup DOMAIN other |-> IF k \in DOMAIN other THEN other[k] ELSE d[k]]

(***************************************************************************)
(* Characters.                                                             *)
(***************************************************************************)
Digits == <<"0", "1", "2", "3", "4", "5", "6", "7", "8", "9">>
UpperCase == <<"A", "B", "C", "D", "E", "F", "G", "H", "I", "J", "K", "L", "M",
               "N", "O", "P", "Q", "R", "S", "T", "U", "V", "W", "X", "Y", "Z">>
LowerCase == <<"a", "b", "c", "d", "e", "f", "g", "h", "i", "j", "k", "l", "m",
               "n", "o", "p", "q", "r", "s", "t", "u", "v", "w", "x", "y", "z">>
Whitespace == {" ", "\t", "\n"}

IsDigit(c) == \E i \in 1..10 : Digits[i] = c
DigitVal(c) == (CHOOSE i \in 1..10 : Digits[i] = c) - 1

LowerChar(c) ==
    IF \E i \in 1..26 : UpperCase[i] = c
    THEN LowerCase[CHOOSE i \in 1..26 : UpperCase[i] = c]
    ELSE c
Lower(s) == [i \in 1..Len(s) |-> LowerChar(s[i])]

\* s[i:] of Python, i counted from 1
From(s, i) == SubSeq(s, i, Len(s))

\* str.strip()
Strip(s) ==
    LET keep == {i \in 1..Len(s) : s[i] \notin Whitespace}
    IN  IF keep = {} THEN <<>>
        ELSE SubSeq(s, CHOOSE i \in keep : \A j \in keep : i <= j,
                       CHOOSE i \in keep : \A j \in keep : i >= j)

\* str.rstrip(':')
RStripColon(s) ==
    LET keep == {i \in 1..Len(s) : s[i] # ":"}
    IN  IF keep = {} THEN <<>>
        ELSE SubSeq(s, 1, CHOOSE i \in keep : \A j \in keep : i >= j)

\* the end of the maximal run of characters satisfying a test that starts at i
\* (i - 1 when s[i] fails it)
DigitRunEnd(s, i) ==
    LET stop == {j \in i..Len(s) : ~IsDigit(s[j])}
    IN  IF stop = {} THEN Len(s)
        ELSE (CHOOSE j \in stop : \A k \in stop : j <= k) - 1
SpaceRunEnd(s, i) ==
    LET stop == {j \in i..Len(s) : s[j] \notin Whitespace}
    IN  IF stop = {} THEN Len(s)
        ELSE (CHOOSE j \in stop : \A k \in stop : j <= k) - 1

\* int() of a run of digits
RECURSIVE DigitsToInt(_)
DigitsToInt(ds) ==
    IF ds = <<>> THEN 0
    ELSE 10 * DigitsToInt(SubSeq(ds, 1, Len(ds) - 1)) + DigitVal(ds[Len(ds)])

\* the fractional digits of a float: trailing zeros carry no value
RECURSIVE DropTrailingZeros(_)
DropTrailingZeros(ds) ==
    IF ds # <<>> /\ ds[Len(ds)] = "0"
    THEN DropTrailingZeros(SubSeq(ds, 1, Len(ds) - 1))
    ELSE ds

\* float(str) of a string holding no digit: only the spellings of infinity
\* and nan parse (surrounding whitespace and an optional sign are allowed);
\* anything else is a ValueError
Unsigned(w) == IF w # <<>> /\ w[1] \in {"+", "-"} THEN From(w, 2) ELSE w
FloatOfUnsigned(u) ==
    IF u \in {<<"i", "n", "f">>, <<"i", "n", "f", "i", "n", "i", "t", "y">>}
    THEN PyInf
    ELSE IF u = <<"n", "a", "n">> THEN PyNan
    ELSE Raise("ValueError")
FloatOfSigned(w, f) == IF f = PyInf /\ w[1] = "-" THEN PyNegInf ELSE f
FloatOfStripped(w) == FloatOfSigned(w, FloatOfUnsigned(Unsigned(w)))
FloatOfWord(s) == FloatOfStripped(Lower(Strip(s)))

\* the place of the first digit of a string that holds one
FirstDigit(s) ==
    CHOOSE i \in 1..Len(s) : IsDigit(s[i]) /\ \A j \in 1..(i - 1) : ~IsDigit(s[j])

\* re.search(r'(\d+)', value): the first maximal run of digits, or <<>>
FirstDigitRun(s) ==
    IF \A i \in 1..Len(s) : ~IsDigit(s[i]) THEN <<>>
    ELSE SubSeq(s, FirstDigit(s), DigitRunEnd(s, FirstDigit(s)))

\* re.search(r'(\d+(?:\.\d+)?)', value) then float(): the first run of
\* digits with, when a dot and a digit follow it, the digits after the dot
DecimalAt(s, i0, e) ==
    PyFloat(DigitsToInt(SubSeq(s, i0, e)),
            IF e + 2 <= Len(s) /\ s[e + 1] = "." /\ IsDigit(s[e + 2])
            THEN DropTrailingZeros(SubSeq(s, e + 2, DigitRunEnd(s, e + 2)))
            ELSE <<>>)
DecimalFrom(s, i0) == DecimalAt(s, i0, DigitRunEnd(s, i0))
FirstDecimal(s) == DecimalFrom(s, FirstDigit(s))

(***************************************************************************)
(* PowerSpecDatabaseManager._safe_int: None stays None; the first run of   *)
(* digits of a string; int(float(value)) otherwise, where ValueError and   *)
(* TypeError give None and any other exception leaves the function.        *)
(***************************************************************************)
IntOfFloat(f) ==
    CASE f.t = "inf" -> Raise("OverflowError")
      [] f.t = "nan" -> Raise("ValueError")
      [] f.t = "float" -> PyInt(f.ip)
      [] OTHER -> f

\* except (ValueError, TypeError): return None
except_value_type(r) ==
    IF IsRaise(r) /\ r.exc \in {"ValueError", "TypeError"} THEN None ELSE r

IntOfStr(s, run) ==
    IF run # <<>> THEN PyInt(DigitsToInt(run)) ELSE IntOfFloat(FloatOfWord(s))

_safe_int(value) ==
    IF value.t = "none" THEN None
    ELSE except_value_type(IF value.t = "str"
                           THEN IntOfStr(value.v, FirstDigitRun(value.v))
                           ELSE IntOfFloat(PyFloat(value.v, <<>>)))

(***************************************************************************)
(* PowerSpecDatabaseManager._safe_float.                                   *)
(***************************************************************************)
FloatOfStr(s) ==
    IF \E i \in 1..Len(s) : IsDigit(s[i]) THEN FirstDecimal(s) ELSE FloatOfWord(s)

_safe_float(value) ==
    IF value.t = "none" THEN None
    ELSE except_value_type(IF value.t = "str" THEN FloatOfStr(value.v)
                           ELSE PyFloat(value.v, <<>>))

(***************************************************************************)
(* The regular expression ^products\s+formerly\s+ under re.IGNORECASE:     *)
(* the length of its match at the start of s, or 0.  \s+ is greedy and     *)
(* nothing after it can fail, so the match is unique.                      *)
(***************************************************************************)
W_products == <<"p", "r", "o", "d", "u", "c", "t", "s">>
W_formerly == <<"f", "o", "r", "m", "e", "r", "l", "y">>

StartsWith(s, i, w) ==
    i + Len(w) - 1 <= Len(s) /\ SubSeq(s, i, i + Len(w) - 1) = w

\* e1 and e2 are the ends of the two runs of whitespace
PrefixEnd(l, e1, e2) ==
    IF /\ StartsWith(l, 1, W_products)
       /\ e1 >= Len(W_products) + 1
       /\ StartsWith(l, e1 + 1, W_formerly)
       /\ e2 >= e1 + 1 + Len(W_formerly)
    THEN e2 ELSE 0
PrefixAfter(s, e1) == PrefixEnd(Lower(s), e1, SpaceRunEnd(s, e1 + 1 + Len(W_formerly)))
PrefixMatchLen(s) == PrefixAfter(s, SpaceRunEnd(s, Len(W_products) + 1))

\* re.sub(r'^products\s+formerly\s+', '', s, flags=re.IGNORECASE)
SubPrefix(s) == From(s, PrefixMatchLen(s) + 1)

(***************************************************************************)
(* PowerSpecDatabaseManager._clean_code_name.                              *)
(***************************************************************************)
Cleaned(s) == RStripColon(Strip(SubPrefix(s)))
NotColon(cleaned) == IF cleaned # <<>> /\ cleaned # <<":">> THEN Str(cleaned) ELSE None
NotEmpty(cleaned) == IF cleaned # <<>> THEN Str(cleaned) ELSE None

_clean_code_name(code_name) ==
    IF ~Truthy(code_name) \/ code_name.t # "str" THEN None
    ELSE NotColon(Cleaned(code_name.v))

(***************************************************************************)
(* clean_code_name of update_code_names.py: the caller passes a truthy     *)
(* value; re.sub raises TypeError on a value that is not a string.         *)
(***************************************************************************)
clean_code_name(code_name_raw) ==
    IF ~Truthy(code_name_raw) THEN None
    ELSE IF code_name_raw.t # "str" THEN Raise("TypeError")
    ELSE NotEmpty(Cleaned(code_name_raw.v))

(***************************************************************************)
(* IntelCpuParser._clean_specification_key of src/src/parser.py, on the    *)
(* characters of the label.  \w is a letter, a digit or the underscore;    *)
(* every other character that is neither whitespace nor a hyphen (a        *)
(* footnote marker, a trademark sign, punctuation) is removed.             *)
(***************************************************************************)
IsLetter(c) == \E i \in 1..26 : UpperCase[i] = c \/ LowerCase[i] = c
IsWordChar(c) == IsLetter(c) \/ IsDigit(c) \/ c = "_"
KeepChar(c) == IsWordChar(c) \/ c \in Whitespace \/ c = "-"

\* re.sub(r'[^\w\s\-]', '', key)
RemoveSpecial(s) == SelectSeq(s, KeepChar)

\* re.sub(r'\s+', ' ', s): every run of whitespace becomes one space
RECURSIVE CollapseSpaces(_)
CollapseSpaces(s) ==
    IF s = <<>> THEN <<>>
    ELSE IF s[1] \in Whitespace
    THEN <<" ">> \o CollapseSpaces(From(s, SpaceRunEnd(s, 1) + 1))
    ELSE <<s[1]>> \o CollapseSpaces(Tail(s))

\* .replace(' ', '_').replace('-', '_')
Underscored(s) == [i \in 1..Len(s) |-> IF s[i] \in {" ", "-"} THEN "_" ELSE s[i]]

prefixes_to_remove ==
    <<<<"i", "n", "t", "e", "l", "_">>,
      <<"p", "r", "o", "c", "e", "s", "s", "o", "r", "_">>,
      <<"c", "p", "u", "_">>>>
suffixes_to_remove ==
    <<<<"_", "s", "u", "p", "p", "o", "r", "t">>,
      <<"_", "t", "e", "c", "h", "n", "o", "l", "o", "g", "y">>>>

EndsWith(s, w) == Len(w) <= Len(s) /\ SubSeq(s, Len(s) - Len(w) + 1, Len(s)) = w

\* for prefix in prefixes_to_remove: one pass, each prefix tried once
RECURSIVE RemovePrefixes(_, _)
RemovePrefixes(s, i) ==
    IF i > Len(prefixes_to_remove) THEN s
    ELSE IF StartsWith(s, 1, prefixes_to_remove[i])
    THEN RemovePrefixes(From(s, Len(prefixes_to_remove[i]) + 1), i + 1)
    ELSE RemovePrefixes(s, i + 1)

\* for suffix in suffixes_to_remove: one pass, each suffix tried once
RECURSIVE RemoveSuffixes(_, _)
RemoveSuffixes(s, i) ==
    IF i > Len(suffixes_to_remove) THEN s
    ELSE IF EndsWith(s, suffixes_to_remove[i])
    THEN RemoveSuffixes(SubSeq(s, 1, Len(s) - Len(suffixes_to_remove[i])), i + 1)
    ELSE RemoveSuffixes(s, i + 1)

_clean_specification_key(key) ==
    IF key = <<>> THEN <<>>
    ELSE RemoveSuffixes(
             RemovePrefixes(
                 Underscored(Lower(Strip(CollapseSpaces(RemoveSpecial(key))))), 1), 1)

(***************************************************************************)
(* IntelCpuParser._categorize_specification: the rules in the order of the *)
(* if statements; `word in key_lower` is a substring test.                 *)
(***************************************************************************)
Contains(s, w) == \E i \in 1..(Len(s) - Len(w) + 1) : SubSeq(s, i, i + Len(w) - 1) = w

\* the word lists and the category each returns, in the order of the code
CategoryRules ==
    << [words |-> {<<"c", "o", "r", "e">>,
                    <<"t", "h", "r", "e", "a", "d">>,
                    <<"f", "r", "e", "q", "u", "e", "n", "c", "y">>,
                    <<"t", "u", "r", "b", "o">>,
                    <<"c", "a", "c", "h", "e">>},
        category |-> "cpu_specifications"],
       [words |-> {<<"m", "e", "m", "o", "r", "y">>,
                    <<"d", "d", "r">>,
                    <<"l", "p", "d", "d", "r">>,
                    <<"c", "h", "a", "n", "n", "e", "l">>},
        category |-> "memory_specifications"],
       [words |-> {<<"g", "p", "u">>,
                    <<"g", "r", "a", "p", "h", "i", "c", "s">>,
                    <<"d", "i", "s", "p", "l", "a", "y">>,
                    <<"r", "e", "s", "o", "l", "u", "t", "i", "o", "n">>,
                    <<"x", "e">>},
        category |-> "gpu_specifications"],
       [words |-> {<<"n", "p", "u">>,
                    <<"a", "i">>,
                    <<"t", "o", "p", "s">>,
                    <<"n", "e", "u", "r", "a", "l">>},
        category |-> "npu_specifications"],
       [words |-> {<<"p", "o", "w", "e", "r">>,
                    <<"t", "d", "p">>,
                    <<"w", "a", "t", "t">>,
                    <<"t", "e", "m", "p", "e", "r", "a", "t", "u", "r", "e">>},
        category |-> "package_specifications"],
       [words |-> {<<"p", "c", "i">>,
                    <<"t", "h", "u", "n", "d", "e", "r", "b", "o", "l", "t">>,
                    <<"u", "s", "b">>,
                    <<"e", "x", "p", "a", "n", "s", "i", "o", "n">>},
        category |-> "expansion_options"],
       [words |-> {<<"s", "e", "c", "u", "r", "i", "t", "y">>,
                    <<"e", "n", "c", "r", "y", "p", "t", "i", "o", "n">>,
                    <<"t", "r", "u", "s", "t">>,
                    <<"g", "u", "a", "r", "d">>},
        category |-> "security_reliability"] >>

\* any(word in key_lower for word in [...])
AnyWordIn(key_lower, words) == \E w \in words : Contains(key_lower, w)

CategorizeLast(key_lower, i) ==
    \* the rules tried from the last to the first
    IF \A j \in i..Len(CategoryRules) : ~AnyWordIn(key_lower, CategoryRules[j].words)
    THEN "general"
    ELSE CategoryRules[CHOOSE j \in i..Len(CategoryRules) :
                          /\ AnyWordIn(key_lower, CategoryRules[j].words)
                          /\ \A k \in (j + 1)..Len(CategoryRules) :
                                 ~AnyWordIn(key_lower, CategoryRules[k].words)].category

\* the if statements from the i-th on
RECURSIVE CategorizeFrom(_, _)
CategorizeFrom(key_lower, i) ==
    IF i > Len(CategoryRules) THEN "general"
    ELSE IF AnyWordIn(key_lower, CategoryRules[i].words) THEN CategoryRules[i].category
    ELSE CategorizeFrom(key_lower, i + 1)

_categorize_specification(key) == CategorizeFrom(Lower(key), 1)

(***************************************************************************)
(* IntelCpuParser._clean_lithography_value, on the characters of the       *)
(* value (a value holds no line break: it is a capture of [^\n\r<>]+ or a  *)
(* stripped cell text).  The regular expressions run under re.IGNORECASE.  *)
(***************************************************************************)
\* re.sub(r'^(?:using|with|on|at|by)\s+', '', value)
LeadingWordEnd(l, w) ==
    IF StartsWith(l, 1, w) /\ SpaceRunEnd(l, Len(w) + 1) > Len(w)
    THEN SpaceRunEnd(l, Len(w) + 1) ELSE 0
RECURSIVE LeadingEnd(_, _)
LeadingEnd(l, ws) ==
    IF ws = <<>> THEN 0
    ELSE IF LeadingWordEnd(l, Head(ws)) > 0 THEN LeadingWordEnd(l, Head(ws))
    ELSE LeadingEnd(l, Tail(ws))
SubLeading(s) ==
    From(s, LeadingEnd(Lower(s), <<<<"u", "s", "i", "n", "g">>, <<"w", "i", "t", "h">>, <<"o", "n">>, <<"a", "t">>, <<"b", "y">>>>) + 1)

\* re.sub(r'\s+(?:process|technology|node|class|generation|finfet|gaafet)$',
\* '', value) and the strip() after it
TrailingWords ==
    {<<"p", "r", "o", "c", "e", "s", "s">>,
     <<"t", "e", "c", "h", "n", "o", "l", "o", "g", "y">>,
     <<"n", "o", "d", "e">>,
     <<"c", "l", "a", "s", "s">>,
     <<"g", "e", "n", "e", "r", "a", "t", "i", "o", "n">>,
     <<"f", "i", "n", "f", "e", "t">>,
     <<"g", "a", "a", "f", "e", "t">>}
TrailingLen(l) ==
    IF \E w \in TrailingWords :
           EndsWith(l, w) /\ Len(l) > Len(w) /\ l[Len(l) - Len(w)] \in Whitespace
    THEN Len(CHOOSE w \in TrailingWords :
                 EndsWith(l, w) /\ Len(l) > Len(w) /\ l[Len(l) - Len(w)] \in Whitespace)
    ELSE 0
SubTrailing(s) == Strip(SubSeq(s, 1, Len(s) - TrailingLen(Lower(s))))

\* re.sub(r'[\(\)\[\]]', '', value)
NotBracket(c) == c \notin {"(", ")", "[", "]"}

non_process_intel_terms ==
    {<<"i", "n", "t", "e", "l", " ", "6", "4">>,
     <<"i", "n", "t", "e", "l", " ", "3", "2">>,
     <<"i", "n", "t", "e", "l", " ", "x", "8", "6">>,
     <<"i", "n", "t", "e", "l", " ", "x", "6", "4">>,
     <<"i", "n", "t", "e", "l", " ", "s", "s", "e">>,
     <<"i", "n", "t", "e", "l", " ", "a", "v", "x">>,
     <<"i", "n", "t", "e", "l", " ", "h", "t">>,
     <<"i", "n", "t", "e", "l", " ", "v", "t">>}

\* \b after the word character at k
BoundaryAfter(l, k) == k = Len(l) \/ ~IsWordChar(l[k + 1])

\* \d+\s*w somewhere in l: a run of digits, any whitespace, the word
NumberThen(l, w) ==
    \E i \in 1..Len(l) :
        IsDigit(l[i]) /\ StartsWith(l, SpaceRunEnd(l, DigitRunEnd(l, i) + 1) + 1, w)

\* intel\s+(?:[3-9]|1[0-9])\b at k, the first character after the spaces
IntelNodeAt(l, k) ==
    /\ k <= Len(l)
    /\ \/ l[k] \in {"3", "4", "5", "6", "7", "8", "9"} /\ BoundaryAfter(l, k)
       \/ l[k] = "1" /\ k + 1 <= Len(l) /\ IsDigit(l[k + 1]) /\ BoundaryAfter(l, k + 1)
IntelNode(l) ==
    \E i \in 1..Len(l) :
        /\ StartsWith(l, i, <<"i", "n", "t", "e", "l">>)
        /\ SpaceRunEnd(l, i + 5) >= i + 5
        /\ IntelNodeAt(l, SpaceRunEnd(l, i + 5) + 1)

\* n\d+[a-z]?\b: e is the end of the digits
NodeNameEnd(l, e) ==
    \/ BoundaryAfter(l, e)
    \/ e + 1 <= Len(l) /\ IsLetter(l[e + 1]) /\ BoundaryAfter(l, e + 1)
NodeName(l) ==
    \E i \in 1..(Len(l) - 1) :
        l[i] = "n" /\ IsDigit(l[i + 1]) /\ NodeNameEnd(l, DigitRunEnd(l, i + 1))

\* tsmc\s+n\d+
TsmcName(l) ==
    \E i \in 1..Len(l) :
        /\ StartsWith(l, i, <<"t", "s", "m", "c">>)
        /\ SpaceRunEnd(l, i + 4) >= i + 4
        /\ StartsWith(l, SpaceRunEnd(l, i + 4) + 1, <<"n">>)
        /\ SpaceRunEnd(l, i + 4) + 2 <= Len(l)
        /\ IsDigit(l[SpaceRunEnd(l, i + 4) + 2])

\* valid_patterns: the patterns \d+\s*nm\s*\+, \d+\s*nm\s+(?:finfet|gaafet),
\* samsung\s+\d+\s*nm and globalfoundries\s+\d+\s*nm match only where
\* \d+\s*nm does, and intel\s+(?:[3-9]|1[0-9])\s*\+ only where
\* intel\s+(?:[3-9]|1[0-9])\b does
valid_patterns(l) ==
    \/ NumberThen(l, <<"n", "m">>)
    \/ IntelNode(l)
    \/ NodeName(l)
    \/ NumberThen(l, <<"n", "a", "n", "o", "m", "e", "t", "e", "r">>)
    \/ TsmcName(l)

Validated(value) ==
    IF Lower(value) \in non_process_intel_terms THEN None
    ELSE IF valid_patterns(Lower(value)) THEN Str(value)
    ELSE None

_clean_lithography_value(value) ==
    IF Len(value) < 2 THEN None
    ELSE Validated(SelectSeq(CollapseSpaces(SubTrailing(SubLeading(value))), NotBracket))

(***************************************************************************)
(* A page as the four extraction strategies see it:                        *)
(*   sections       what _extract_section_specifications returns           *)
(*   rows           what _extract_tech_section_row_specifications returns  *)
(*   tables         what _extract_table_specifications returns             *)
(*   patterns       the captures of spec_patterns other than lithography   *)
(*   lithography    the values the lithography pattern pairs with a        *)
(*                  Lithography label, in the order of the page text       *)
(*   process_cells  the table and definition-list values whose label holds *)
(*                  a process keyword, in the order of the fallback        *)
(***************************************************************************)
\* the first value that _clean_lithography_value accepts, cleaned
RECURSIVE FirstCleaned(_)
FirstCleaned(values) ==
    IF values = <<>> THEN None
    ELSE IF _clean_lithography_value(Head(values)) # None
    THEN _clean_lithography_value(Head(values))
    ELSE FirstCleaned(Tail(values))

_extract_lithography_fallback(page) == FirstCleaned(page.process_cells)

_extract_lithography_enhanced(page) ==
    IF FirstCleaned(page.lithography) # None THEN FirstCleaned(page.lithography)
    ELSE _extract_lithography_fallback(page)

\* the loop over spec_patterns: re.search on the lowered text finds the
\* first label; match.group(1).strip() is kept when it is not empty
pattern_specs(page) ==
    IF page.lithography # <<>> /\ Strip(page.lithography[1]) # <<>>
    THEN Update(page.patterns, "lithography" :> Str(Lower(Strip(page.lithography[1]))))
    ELSE page.patterns

enhanced_specs(specs, lithography_value) ==
    IF Truthy(lithography_value) THEN Update(specs, "lithography" :> lithography_value)
    ELSE specs

_extract_legacy_specifications(page) ==
    enhanced_specs(pattern_specs(page), _extract_lithography_enhanced(page))

(***************************************************************************)
(* IntelCpuParser._extract_specifications.  A key of a mapping is a        *)
(* string; KeySpelling gives the characters of the keys the pages hold,    *)
(* for the substring tests of _categorize_specification.                   *)
(***************************************************************************)
KeySpelling ==
    [total_cores |-> <<"t", "o", "t", "a", "l", "_", "c", "o", "r", "e", "s">>,
     max_turbo_frequency |-> <<"m", "a", "x", "_", "t", "u", "r", "b", "o", "_", "f", "r", "e", "q", "u", "e", "n", "c", "y">>,
     lithography |-> <<"l", "i", "t", "h", "o", "g", "r", "a", "p", "h", "y">>]

\* the categories every result starts with, each empty
SpecCategories ==
    {"essentials", "cpu_specifications", "memory_specifications",
     "gpu_specifications", "npu_specifications", "expansion_options",
     "package_specifications", "advanced_technologies", "security_reliability",
     "supplemental_information"}

\* category_mappings of _categorize_legacy_specifications
category_mappings ==
    [essentials |-> {"product_collection", "vertical_segment", "launch_date",
                     "code_name", "instruction_set"},
     cpu_specifications |-> {"total_cores", "performance_cores", "efficiency_cores",
                             "total_threads", "max_turbo_frequency", "base_frequency",
                             "performance_core_max_frequency",
                             "efficiency_core_max_frequency",
                             "performance_core_base_frequency",
                             "efficiency_core_base_frequency",
                             "turbo_boost_max_frequency", "cache_size", "smart_cache",
                             "l1_cache", "l2_cache", "l3_cache", "lithography"},
     memory_specifications |-> {"max_memory_size", "memory_channels", "memory_types",
                                "memory_speed"},
     gpu_specifications |-> {"gpu_name", "graphics_max_frequency",
                             "graphics_base_frequency", "xe_cores", "execution_units"},
     npu_specifications |-> {"npu_name", "npu_tops", "overall_tops", "ai_boost"},
     expansion_options |-> {"socket"},
     package_specifications |-> {"processor_base_power", "maximum_turbo_power",
                                 "minimum_assured_power", "tdp", "configurable_tdp_up",
                                 "configurable_tdp_down", "max_operating_temperature",
                                 "package_size", "tjunction"},
     advanced_technologies |-> {"speed_shift", "turbo_boost", "enhanced_speedstep",
                                "thermal_monitoring", "configurable_tdp"}]

\* the category of one legacy key: the list that holds it (no key is in two
\* lists), or supplemental_information
LegacyCategory(k) ==
    IF \E c \in DOMAIN category_mappings : k \in category_mappings[c]
    THEN CHOOSE c \in DOMAIN category_mappings : k \in category_mappings[c]
    ELSE "supplemental_information"

\* the categorized mapping without its empty categories
_categorize_legacy_specifications(legacy_specs) ==
    [c \in {LegacyCategory(k) : k \in DOMAIN legacy_specs} |->
        [k \in {x \in DOMAIN legacy_specs : LegacyCategory(x) = c} |-> legacy_specs[k]]]

\* for key, value in flat.items(): specs[category][key] = value
MergeKeyed(specs, flat) ==
    [c \in DOMAIN specs \cup {_categorize_specification(KeySpelling[k]) : k \in DOMAIN flat} |->
        Update(GetDict(specs, c),
               [k \in {x \in DOMAIN flat : _categorize_specification(KeySpelling[x]) = c} |->
                   flat[k]])]

\* for category, category_specs in categorized.items(): specs[category].update(...)
MergeCategorized(specs, categorized) ==
    [c \in DOMAIN specs \cup DOMAIN categorized |->
        Update(GetDict(specs, c), GetDict(categorized, c))]

\* the legacy keys found in no category of the categorized mapping
uncategorized(legacy_specs, categorized) ==
    [k \in {x \in DOMAIN legacy_specs :
               \A c \in DOMAIN categorized : x \notin DOMAIN categorized[c]} |->
        legacy_specs[k]]

KeepUncategorized(specs, unc) ==
    IF DOMAIN unc # {} THEN Update(specs, "legacy" :> unc) ELSE specs

MergeLegacy(specs, legacy_specs, categorized) ==
    IF DOMAIN legacy_specs = {} THEN specs
    ELSE KeepUncategorized(MergeCategorized(specs, categorized),
                           uncategorized(legacy_specs, categorized))

\* utils.normalize_unicode_text, which src/src/utils.py does not hold: the
\* typographic variants become their plain equivalents and repeated
\* whitespace collapses; the values of the pages are plain characters
normalize_unicode_text(x) == IF x.t = "str" THEN Str(CollapseSpaces(x.v)) ELSE x

_normalize_specification_unicode(specs) ==
    [c \in DOMAIN specs |-> [k \in DOMAIN specs[c] |-> normalize_unicode_text(specs[c][k])]]

merged_specs(page, legacy_specs) ==
    MergeLegacy(
        MergeKeyed(
            MergeKeyed(Update([c \in SpecCategories |-> EmptyDict], page.sections),
                       page.rows),
            page.tables),
        legacy_specs, _categorize_legacy_specifications(legacy_specs))

_extract_specifications(page) ==
    _normalize_specification_unicode(
        merged_specs(page, _extract_legacy_specifications(page)))


(***************************************************************************)
(* The table cpu_power_specs.  A row carries its id and the columns of     *)
(* insert_data that the legacy fallback, the export filter and the         *)
(* code-name backfill read or write; the remaining columns of the schema   *)
(* are filled by the same three patterns (_safe_int, _safe_float, a plain  *)
(* get) and are never updated.  NULL is None.                              *)
(***************************************************************************)
PyTrue == [t |-> "bool", v |-> TRUE]
PyFalse == [t |-> "bool", v |-> FALSE]
Json(d) == [t |-> "json", v |-> d]

\* the categories insert_cpu_specs merges, in the order it merges them
MergeCategories ==
    <<"essentials", "cpu_specifications", "memory_specifications",
      "gpu_specifications", "npu_specifications", "expansion_options",
      "package_specifications", "advanced_technologies", "legacy">>

\* all_specs: every merged category updates the mapping, later ones overwrite
RECURSIVE MergeFrom(_, _)
MergeFrom(specs, i) ==
    IF i = 0 THEN EmptyDict
    ELSE Update(MergeFrom(specs, i - 1), GetDict(specs, MergeCategories[i]))
all_specs(specs) == MergeFrom(specs, Len(MergeCategories))

\* json.dumps({k: v for k, v in specs.items() if k != 'legacy' and v}):
\* the non-legacy, non-empty sections.  The text json.loads reads back is
\* this mapping (string keys; values None, numbers and strings).
additional_specs(specs) ==
    Json([k \in {c \in DOMAIN specs : c # "legacy" /\ DOMAIN specs[c] # {}} |-> specs[k]])

\* sqlite3 binds a float nan as NULL
Bind(x) == IF x.t = "nan" THEN None ELSE x

\* the first exception among the values computed in order, or None
RECURSIVE FirstRaise(_)
FirstRaise(xs) ==
    IF xs = <<>> THEN None
    ELSE IF IsRaise(Head(xs)) THEN Head(xs) ELSE FirstRaise(Tail(xs))

(***************************************************************************)
(* The legacy-architecture fallback of insert_cpu_specs: the cores and the *)
(* frequencies after it, from the coerced values.                          *)
(***************************************************************************)
is_legacy_architecture(total_cores, performance_cores, efficiency_cores) ==
    Truthy(total_cores) /\ ~Truthy(performance_cores) /\ ~Truthy(efficiency_cores)

Mirror(legacy, general, p_core) ==
    IF legacy /\ Truthy(general) /\ ~Truthy(p_core) THEN general ELSE p_core

(***************************************************************************)
(* insert_data of insert_cpu_specs, lines 151-271: the column values of    *)
(* the new row, or the exception raised while computing them.              *)
(***************************************************************************)
coerced(all, cpu_data) ==
    [total_cores |-> _safe_int(Get(all, "total_cores")),
     performance_cores |-> _safe_int(Get(all, "performance_cores")),
     efficiency_cores |-> _safe_int(Get(all, "efficiency_cores")),
     max_turbo_freq |-> _safe_float(Get(all, "max_turbo_frequency")),
     base_freq |-> _safe_float(Get(all, "base_frequency")),
     p_core_max_freq |-> _safe_float(Get(all, "performance_core_max_frequency")),
     p_core_base_freq |-> _safe_float(Get(all, "performance_core_base_frequency")),
     name |-> IF "name" \in DOMAIN cpu_data THEN cpu_data["name"] ELSE Raise("KeyError"),
     processor_base_power |-> _safe_float(Get(all, "processor_base_power")),
     code_name |-> _clean_code_name(Get(all, "code_name"))]

\* the exception that ends the computation, in the order of the lines
raised(v) ==
    FirstRaise(<<v.total_cores, v.performance_cores, v.efficiency_cores,
                 v.max_turbo_freq, v.base_freq, v.p_core_max_freq,
                 v.p_core_base_freq, v.name, v.processor_base_power>>)

columns(cpu_data, specs, v, legacy) ==
    [url |-> cpu_data["url"],
     name |-> v.name,
     total_cores |-> v.total_cores,
     performance_cores |-> IF legacy THEN v.total_cores ELSE v.performance_cores,
     efficiency_cores |-> IF legacy THEN PyInt(0) ELSE v.efficiency_cores,
     max_turbo_frequency |-> Bind(v.max_turbo_freq),
     base_frequency |-> Bind(v.base_freq),
     performance_core_max_frequency |->
         Bind(Mirror(legacy, v.max_turbo_freq, v.p_core_max_freq)),
     performance_core_base_frequency |->
         Bind(Mirror(legacy, v.base_freq, v.p_core_base_freq)),
     processor_base_power |-> Bind(v.processor_base_power),
     code_name |-> v.code_name,
     additional_specs |-> additional_specs(specs)]

columns_or_raise(cpu_data, specs, v) ==
    IF IsRaise(raised(v)) THEN raised(v)
    ELSE columns(cpu_data, specs, v,
                 is_legacy_architecture(v.total_cores, v.performance_cores,
                                        v.efficiency_cores))

specs_data(cpu_data, specs) ==
    columns_or_raise(cpu_data, specs, coerced(all_specs(specs), cpu_data))

insert_data(cpu_data) == specs_data(cpu_data, GetDict(cpu_data, "specifications"))

(***************************************************************************)
(* SQL.  A comparison with NULL is never true; url is UNIQUE NOT NULL and  *)
(* name is NOT NULL; id is AUTOINCREMENT, one more than the largest id     *)
(* ever given out.                                                         *)
(***************************************************************************)
SqlEqNever(a, b) ==
    \* an equality that matches nothing
    FALSE

SqlEq(a, b) == a.t # "none" /\ b.t # "none" /\ a = b

\* SELECT id FROM cpu_power_specs WHERE url = ?
_cpu_exists(tbl, url) == \E r \in tbl : SqlEq(r.url, url)

NotNullUrlOnly(data) ==
    \* a schema whose name column may be NULL
    data.url = None

NotNullViolation(data) == data.url = None \/ data.name = None
UniqueViolationIgnored(tbl, data) ==
    \* a schema without the UNIQUE constraint on url
    FALSE

UniqueViolation(tbl, data) == \E r \in tbl : SqlEq(r.url, data.url)

WithId(data, id) ==
    [c \in DOMAIN data \cup {"id"} |-> IF c = "id" THEN id ELSE data[c]]

SqlInsertLost(tbl, data, id) ==
    \* an INSERT whose transaction is never committed
    tbl

\* INSERT INTO cpu_power_specs (...) VALUES (...), committed
SqlInsert(tbl, data, id) == tbl \cup {WithId(data, id)}

\* SELECT COUNT(*) FROM cpu_power_specs
get_cpu_count(tbl) == Cardinality(tbl)


(***************************************************************************)
(* State.                                                                  *)
(*   table     the committed rows of cpu_power_specs                       *)
(*   seq       sqlite_sequence: the largest id ever given out              *)
(*   call      the last completed call of a single-process run: its        *)
(*             operation, argument and what it returned or wrote           *)
(*   inserted  history: the urls for which an insert returned True         *)
(*   conn      the connections of concurrently running inserts: where each *)
(*             is in insert_cpu_specs, its argument, its uncommitted row   *)
(*             and its return value                                        *)
(*   lock      the connection holding the database write lock, 0 for none  *)
(*   observed  what the last concurrent reader saw                         *)
(*   crawler   one run of IntelCpuCrawler.crawl: where it is, its         *)
(*             settings, the urls it found and attempted with what became  *)
(*             of each, and its result list                                *)
(*   updater   one run of DatabaseUpdater.run_update: where it is, the     *)
(*             stored urls it read, the new products it found, the urls    *)
(*             it fetched and its statistics                               *)
(***************************************************************************)
VARIABLES table, seq, call, inserted, conn, lock, observed, crawler, updater
vars == <<table, seq, call, inserted, conn, lock, observed, crawler, updater>>
seqVars == <<table, seq, call, inserted>>
concVars == <<conn, lock, observed>>

Conns == 1..NumConns
IdleConn == [pc |-> "idle", arg |-> EmptyDict, row |-> None, ret |-> None]

\* before crawl() is called: nothing found, attempted or collected
IdleCrawler ==
    [pc |-> "idle", base |-> 0, cpu_urls |-> <<>>, i |-> 0, all_cpus |-> <<>>,
     found |-> <<>>, attempted |-> <<>>, outcomes |-> <<>>,
     max_pages |-> 0, delay |-> 0, use_database |-> TRUE, max_retries |-> 0,
     requests |-> 0, fetched |-> 0, waited |-> 0, gaps |-> {}]

\* before run_update is called
IdleUpdater ==
    [pc |-> "idle", existing_urls |-> {}, family |-> 0, new_products |-> <<>>,
     listed |-> {}, k |-> 0, j |-> 0, overall_idx |-> 0, fetched |-> <<>>,
     stats |-> [total_new |-> 0, successful |-> 0, failed |-> 0, skipped |-> 0],
     delay_seconds |-> 0, dry_run |-> FALSE]

Init ==
    /\ table = {}
    /\ seq = 0
    /\ call = [op |-> "none"]
    /\ inserted = {}
    /\ conn = [c \in Conns |-> IdleConn]
    /\ lock = 0
    /\ observed = {}
    /\ crawler = IdleCrawler
    /\ updater = IdleUpdater

(***************************************************************************)
(* insert_cpu_specs, lines 141-286: the body of the try block.  The result *)
(* is the table, the sequence and either the value returned or the         *)
(* exception raised; an exception rolls the transaction back.              *)
(***************************************************************************)
execute(tbl, sq, data) ==
    IF IsRaise(data)
    THEN [table |-> tbl, seq |-> sq, out |-> data]
    ELSE IF NotNullViolation(data) \/ UniqueViolation(tbl, data)
    THEN [table |-> tbl, seq |-> sq, out |-> Raise("IntegrityError")]
    ELSE [table |-> SqlInsert(tbl, data, sq + 1), seq |-> sq + 1, out |-> PyTrue]

try_block(tbl, sq, cpu_data) ==
    IF "url" \notin DOMAIN cpu_data
    THEN [table |-> tbl, seq |-> sq, out |-> Raise("KeyError")]
    ELSE IF _cpu_exists(tbl, cpu_data["url"])
    THEN [table |-> tbl, seq |-> sq, out |-> PyFalse]
    ELSE execute(tbl, sq, insert_data(cpu_data))

(***************************************************************************)
(* The except clauses of insert_cpu_specs, lines 288-293: IntegrityError   *)
(* and every other Exception return False.                                 *)
(***************************************************************************)
except_integrity_only(out) ==
    \* only the IntegrityError clause: anything else leaves the method
    IF IsRaise(out) /\ out.exc = "IntegrityError" THEN PyFalse ELSE out

except_clauses(out) == IF IsRaise(out) THEN PyFalse ELSE out

returned(r) == [table |-> r.table, seq |-> r.seq, ret |-> except_clauses(r.out)]

insert_cpu_specs(tbl, sq, cpu_data) == returned(try_block(tbl, sq, cpu_data))

(***************************************************************************)
(* One call of insert_cpu_specs in a single-process run; r is what the     *)
(* call does to the store and returns.                                     *)
(***************************************************************************)
InsertCpuSpecs(cpu_data, r) ==
    /\ table' = r.table
    /\ seq' = r.seq
    /\ call' = [op |-> "insert_cpu_specs", arg |-> cpu_data, ret |-> r.ret]
    /\ inserted' = IF r.ret = PyTrue THEN inserted \cup {cpu_data["url"]}
                   ELSE inserted
    /\ UNCHANGED concVars
    /\ UNCHANGED <<crawler, updater>>

Insert(cpu_data) == InsertCpuSpecs(cpu_data, insert_cpu_specs(table, seq, cpu_data))

(***************************************************************************)
(* update_code_names.py.  code_name_raw of one row, lines 67-86: general,  *)
(* then essentials, then cpu_specifications of the parsed blob.            *)
(***************************************************************************)
section_code_name(specs, section, found) ==
    IF ~Truthy(found) /\ section \in DOMAIN specs
    THEN Get(specs[section], "code_name") ELSE found

code_name_raw(specs) ==
    section_code_name(specs, "cpu_specifications",
        section_code_name(specs, "essentials",
            IF "general" \in DOMAIN specs
            THEN Get(specs["general"], "code_name") ELSE None))

\* what the loop body does with one row: "updated" with the cleaned name,
\* "skipped" or "not_found"
cleaned_update(cleaned) ==
    IF IsRaise(cleaned) THEN [kind |-> "skipped"]
    ELSE IF Truthy(cleaned) /\ cleaned # Str(<<":">>)
    THEN [kind |-> "updated", code_name |-> cleaned]
    ELSE [kind |-> "skipped"]

raw_update(raw) ==
    IF ~Truthy(raw) THEN [kind |-> "not_found"]
    ELSE cleaned_update(clean_code_name(raw))

row_update(r) ==
    IF r.additional_specs = None THEN [kind |-> "skipped"]
    ELSE raw_update(code_name_raw(r.additional_specs.v))

SqlUpdateWrongColumn(tbl, value, id) ==
    \* the UPDATE of a script that names the wrong column
    {IF r.id = id THEN [r EXCEPT !.name = value] ELSE r : r \in tbl}

SqlUpdateAppended(tbl, value, id) ==
    \* an UPDATE that appends the name to the one the row holds
    {IF r.id = id
     THEN [r EXCEPT !.code_name = IF @ = None THEN value ELSE Str(@.v \o value.v)]
     ELSE r : r \in tbl}

\* UPDATE cpu_power_specs SET code_name = ? WHERE id = ?
SqlUpdateCodeName(tbl, value, id) ==
    {IF r.id = id THEN [r EXCEPT !.code_name = value] ELSE r : r \in tbl}

apply_update(tbl, u, id) ==
    IF u.kind = "updated" THEN SqlUpdateCodeName(tbl, u.code_name, id) ELSE tbl

\* the loop over the fetched rows, in id order, on the table so far
RECURSIVE update_loop(_, _, _)
update_loop(rows, tbl, id) ==
    IF id = 0 THEN tbl
    ELSE IF \A r \in rows : r.id # id THEN update_loop(rows, tbl, id - 1)
    ELSE apply_update(update_loop(rows, tbl, id - 1),
                      row_update(CHOOSE r \in rows : r.id = id), id)

\* the counters of the summary
Counted(rows, kind) == Cardinality({r \in rows : row_update(r).kind = kind})

\* how many times in a row the script is run
MaxRuns == 2

\* the runs of the script since the last insert
runs(c) == IF c.op = "update_code_names" THEN c.runs ELSE 0

UpdateCodeNames ==
    /\ runs(call) < MaxRuns
    /\ table' = update_loop(table, table, seq)
    /\ call' = [op |-> "update_code_names",
                updated |-> Counted(table, "updated"),
                not_found |-> Counted(table, "not_found"),
                skipped |-> Counted(table, "skipped"),
                runs |-> runs(call) + 1]
    /\ UNCHANGED <<seq, inserted>>
    /\ UNCHANGED concVars
    /\ UNCHANGED <<crawler, updater>>

(***************************************************************************)
(* The records a run feeds to the store.                                   *)
(***************************************************************************)
Missing == [t |-> "missing"]
CpuData(url, name, specs) ==
    LET f == [k \in {"url", "name", "specifications"} |->
                 IF k = "url" THEN url ELSE IF k = "name" THEN name ELSE specs]
    IN  [k \in {x \in {"url", "name", "specifications"} : f[x] # Missing} |-> f[k]]

Urls == {Str(<<"u", Digits[i + 1]>>) : i \in 1..NumUrls}

S_LunarLake == Str(<<"P", "r", "o", "d", "u", "c", "t", "s", " ", "f", "o", "r",
                   "m", "e", "r", "l", "y", " ", "L", "u", "n", "a", "r", " ",
                   "L", "a", "k", "e", ":">>)
S_ArrowLake == Str(<<"p", "r", "o", "d", "u", "c", "t", "s", " ", " ", "f", "o",
                   "r", "m", "e", "r", "l", "y", " ", "A", "r", "r", "o", "w",
                   " ", "L", "a", "k", "e">>)
S_Colon == Str(<<":">>)
S_Inf == Str(<<"i", "n", "f">>)
S_0 == Str(<<"0">>)
S_8 == Str(<<"8">>)
S_6 == Str(<<"6">>)
S_2 == Str(<<"2">>)
S_65 == Str(<<"6", "5", ".", "0">>)
S_45 == Str(<<"4", ".", "5">>)
S_51 == Str(<<"5", ".", "1">>)
S_21 == Str(<<"2", ".", "1">>)
S_30 == Str(<<"3", ".", "0">>)
NameA == Str(<<"A">>)
NameB == Str(<<"B">>)

\* a mapping of the keys whose value is given
Fields(f) == [k \in {x \in DOMAIN f : f[x] # Missing} |-> f[k]]

\* the sample of tests/test_integration.py, a code name under each section
\* the backfill reads, a code name that cleans to nothing, one that is not
\* a string, and a core count that _safe_int cannot coerce
StoreSpecs ==
    { Missing,
      "legacy" :> ("total_cores" :> S_8 @@ "processor_base_power" :> S_65),
      "general" :> ("code_name" :> S_LunarLake) @@ "essentials" :> EmptyDict,
      "essentials" :> ("code_name" :> S_ArrowLake),
      "essentials" :> ("code_name" :> S_Colon),
      "general" :> ("code_name" :> PyInt(5)),
      "cpu_specifications" :> ("total_cores" :> S_Inf) }

\* every specification under a good url and name; a null or missing url
\* or name with and without specifications
StoreInputs ==
    {CpuData(u, NameA, sp) : u \in Urls, sp \in StoreSpecs}
    \cup {CpuData(u, n, sp) : u \in Urls \cup {None, Missing},
                              n \in {NameA, None, Missing},
                              sp \in {Missing, "essentials" :> ("code_name" :> S_ArrowLake)}}


(***************************************************************************)
(* export_for_modeling, lines 432-491.  The SELECT reads the modelling     *)
(* columns ORDER BY name (text compares byte by byte; rows of one name     *)
(* come in id order); the loop keeps the rows that pass the filter.        *)
(***************************************************************************)
Alphabet == <<" ">> \o Digits \o UpperCase \o LowerCase
Code(c) == CHOOSE i \in 1..Len(Alphabet) : Alphabet[i] = c

RECURSIVE StrLess(_, _)
StrLess(a, b) ==
    IF b = <<>> THEN FALSE
    ELSE IF a = <<>> THEN TRUE
    ELSE IF Head(a) # Head(b) THEN Code(Head(a)) < Code(Head(b))
    ELSE StrLess(Tail(a), Tail(b))

Before(r1, r2) ==
    StrLess(r1.name.v, r2.name.v) \/ (r1.name = r2.name /\ r1.id < r2.id)

RECURSIVE OrderByName(_)
OrderByName(rows) ==
    IF rows = {} THEN <<>>
    ELSE LET first == CHOOSE r \in rows : \A o \in rows \ {r} : Before(r, o)
         IN  <<first>> \o OrderByName(rows \ {first})

ModelingColumns ==
    {"name", "total_cores", "performance_cores", "efficiency_cores",
     "max_turbo_frequency", "base_frequency", "performance_core_max_frequency",
     "processor_base_power"}

\* dict(zip(columns, row))
modeling_row(r) == [c \in ModelingColumns |-> r[c]]

essential_cores_only(cpu_data) ==
    \* a filter that forgets the base power
    Truthy(cpu_data.total_cores)

\* if cpu_data['processor_base_power'] and cpu_data['total_cores']
essential_power_data(cpu_data) ==
    Truthy(cpu_data.processor_base_power) /\ Truthy(cpu_data.total_cores)

modeling_data(tbl) ==
    SelectSeq([i \in 1..Cardinality(tbl) |-> modeling_row(OrderByName(tbl)[i])],
              essential_power_data)

ExportForModeling ==
    /\ call' = [op |-> "export_for_modeling", ret |-> PyTrue,
                data |-> modeling_data(table)]
    /\ UNCHANGED <<table, seq, inserted>>
    /\ UNCHANGED concVars
    /\ UNCHANGED <<crawler, updater>>

(***************************************************************************)
(* insert_cpu_specs run by several connections at once.  Each call has     *)
(* its own connection (line 142).  The SELECT of _cpu_exists reads the     *)
(* committed table; the INSERT (line 282) opens the transaction and needs  *)
(* the database write lock, which it keeps until the commit (line 283)     *)
(* publishes the row; a connection that finds the lock taken waits and,    *)
(* when the busy timeout runs out, gets OperationalError.  The constraints *)
(* are checked by the INSERT against the committed table.                  *)
(***************************************************************************)
Done(c, ret) ==
    conn' = [conn EXCEPT ![c] = [@ EXCEPT !.pc = "done", !.ret = ret]]

Call(c, cpu_data) ==
    /\ conn[c].pc = "idle"
    /\ conn' = [conn EXCEPT ![c] = [@ EXCEPT !.pc = "check", !.arg = cpu_data]]
    /\ UNCHANGED <<lock, observed>>
    /\ UNCHANGED seqVars
    /\ UNCHANGED <<crawler, updater>>

Prepared(c, data) ==
    IF IsRaise(data) THEN Done(c, except_clauses(data))
    ELSE conn' = [conn EXCEPT ![c] = [@ EXCEPT !.pc = "execute", !.row = data]]

CheckExists(c) ==
    /\ conn[c].pc = "check"
    /\ IF "url" \notin DOMAIN conn[c].arg
       THEN Done(c, except_clauses(Raise("KeyError")))
       ELSE IF _cpu_exists(table, conn[c].arg["url"])
       THEN Done(c, PyFalse)
       ELSE Prepared(c, insert_data(conn[c].arg))
    /\ UNCHANGED <<lock, observed>>
    /\ UNCHANGED seqVars
    /\ UNCHANGED <<crawler, updater>>

Execute(c) ==
    /\ conn[c].pc = "execute"
    /\ lock = 0
    /\ IF NotNullViolation(conn[c].row) \/ UniqueViolation(table, conn[c].row)
       THEN Done(c, except_clauses(Raise("IntegrityError"))) /\ UNCHANGED lock
       ELSE /\ conn' = [conn EXCEPT ![c] = [@ EXCEPT !.pc = "commit"]]
            /\ lock' = c
    /\ UNCHANGED observed
    /\ UNCHANGED seqVars
    /\ UNCHANGED <<crawler, updater>>

BusyTimeout(c) ==
    /\ conn[c].pc = "execute"
    /\ lock \notin {0, c}
    /\ Done(c, except_clauses(Raise("OperationalError")))
    /\ UNCHANGED <<lock, observed>>
    /\ UNCHANGED seqVars
    /\ UNCHANGED <<crawler, updater>>

Commit(c) ==
    /\ conn[c].pc = "commit"
    /\ table' = SqlInsert(table, conn[c].row, seq + 1)
    /\ seq' = seq + 1
    /\ lock' = 0
    /\ inserted' = inserted \cup {conn[c].row.url}
    /\ Done(c, PyTrue)
    /\ UNCHANGED <<call, observed>>
    /\ UNCHANGED <<crawler, updater>>

\* a concurrent reader: one SELECT sees the committed table
Read ==
    /\ observed' = table
    /\ UNCHANGED <<conn, lock>>
    /\ UNCHANGED seqVars
    /\ UNCHANGED <<crawler, updater>>

(***************************************************************************)
(* The specifications.                                                     *)
(*   Spec        a single-process run of inserts and backfills             *)
(*   SpecExport  inserts and exports                                       *)
(*   SpecLegacy  inserts of records with every mix of core counts and      *)
(*               frequencies, under one url                                *)
(*   SpecConc    inserts by concurrent connections, and a reader           *)
(***************************************************************************)
Next ==
    \/ \E cpu_data \in StoreInputs : Insert(cpu_data)
    \/ UpdateCodeNames

Spec == Init /\ [][Next]_vars

\* a base power and a total core count that are absent, zero or positive
ExportSpecs ==
    {"cpu_specifications" :> Fields("processor_base_power" :> p @@ "total_cores" :> n) :
        p \in {Missing, S_0, S_65}, n \in {Missing, S_0, S_8}}
\* every mix of power and cores under one name; under a second name, for the
\* order of the export, a record with both values and one without power
ExportInputs ==
    {CpuData(u, NameA, sp) : u \in Urls, sp \in ExportSpecs}
        \cup {CpuData(u, NameB, "cpu_specifications" :> Fields("processor_base_power" :> p
                                                               @@ "total_cores" :> S_8)) :
                 u \in Urls, p \in {Missing, S_65}}

NextExport ==
    \/ \E cpu_data \in ExportInputs : Insert(cpu_data)
    \/ ExportForModeling

SpecExport == Init /\ [][NextExport]_vars

CoreSpecs ==
    {Fields("total_cores" :> n @@ "performance_cores" :> p @@ "efficiency_cores" :> e) :
        n \in {Missing, S_0, S_8}, p \in {Missing, S_0, S_6}, e \in {Missing, S_0, S_2}}
FrequencySpecs ==
    {Fields("max_turbo_frequency" :> mt @@ "performance_core_max_frequency" :> pm
            @@ "base_frequency" :> bf @@ "performance_core_base_frequency" :> pb) :
        mt \in {Missing, S_45}, pm \in {Missing, S_0, S_51},
        bf \in {Missing, S_21}, pb \in {Missing, S_0, S_30}}
\* every mix of cores with both general frequencies and no performance-core
\* frequency; every mix of frequencies with no total, a total alone, a total
\* with a split, and a total with a zero performance-core count
LegacySpecs ==
    {"cpu_specifications" :> Update(cs, "max_turbo_frequency" :> S_45 @@ "base_frequency" :> S_21) :
        cs \in CoreSpecs}
    \cup {"cpu_specifications" :> Update(cs, fs) :
            cs \in {EmptyDict, "total_cores" :> S_8,
                    "total_cores" :> S_8 @@ "performance_cores" :> S_6 @@ "efficiency_cores" :> S_2,
                    "total_cores" :> S_8 @@ "performance_cores" :> S_0},
            fs \in FrequencySpecs}
LegacyInputs == {CpuData(Str(<<"u", "1">>), NameA, sp) : sp \in LegacySpecs}

NextLegacy == \E cpu_data \in LegacyInputs : Insert(cpu_data)

SpecLegacy == Init /\ [][NextLegacy]_vars

ConcInputs == {CpuData(u, n, Missing) : u \in Urls, n \in {NameA, NameB}}

NextConc ==
    \/ \E c \in Conns, cpu_data \in ConcInputs : Call(c, cpu_data)
    \/ \E c \in Conns : CheckExists(c)
    \/ \E c \in Conns : Execute(c)
    \/ \E c \in Conns : BusyTimeout(c)
    \/ \E c \in Conns : Commit(c)
    \/ Read

SpecConc == Init /\ [][NextConc]_vars

(***************************************************************************)
(* Calls of the helpers of the parser and of the store, each on its own:   *)
(* a run is one call, and call records the operation, its argument and     *)
(* what it returned.                                                       *)
(***************************************************************************)
storeVars == <<table, seq, inserted, conn, lock, observed, crawler, updater>>

CleanSpecificationKey(key) ==
    /\ call.op = "none"
    /\ call' = [op |-> "_clean_specification_key", arg |-> key,
                ret |-> _clean_specification_key(key)]
    /\ UNCHANGED storeVars

CategorizeSpecification(key) ==
    /\ call.op = "none"
    /\ call' = [op |-> "_categorize_specification", arg |-> key,
                ret |-> _categorize_specification(key)]
    /\ UNCHANGED storeVars

ExtractSpecifications(page) ==
    /\ call.op = "none"
    /\ call' = [op |-> "_extract_specifications", arg |-> page,
                ret |-> _extract_specifications(page)]
    /\ UNCHANGED storeVars

ExtractLegacySpecifications(page) ==
    /\ call.op = "none"
    /\ call' = [op |-> "_extract_legacy_specifications", arg |-> page,
                ret |-> _extract_legacy_specifications(page)]
    /\ UNCHANGED storeVars

CleanCodeName(code_name) ==
    /\ call.op = "none"
    /\ call' = [op |-> "_clean_code_name", arg |-> code_name,
                ret |-> _clean_code_name(code_name)]
    /\ UNCHANGED storeVars

UpdaterCleanCodeName(code_name) ==
    /\ call.op = "none"
    /\ call' = [op |-> "clean_code_name", arg |-> code_name,
                ret |-> clean_code_name(code_name)]
    /\ UNCHANGED storeVars

SafeInt(value) ==
    /\ call.op = "none"
    /\ call' = [op |-> "_safe_int", arg |-> value, ret |-> _safe_int(value)]
    /\ UNCHANGED storeVars

SafeFloat(value) ==
    /\ call.op = "none"
    /\ call' = [op |-> "_safe_float", arg |-> value, ret |-> _safe_float(value)]
    /\ UNCHANGED storeVars

(***************************************************************************)
(* The inputs of the helpers: strings put together from a few parts.       *)
(***************************************************************************)
\* the strings of at most n parts, sep between two parts
RECURSIVE Joined(_, _, _)
Joined(parts, sep, n) ==
    IF n = 0 THEN {<<>>}
    ELSE Joined(parts, sep, n - 1)
         \cup {IF s = <<>> THEN p ELSE s \o sep \o p :
                  s \in Joined(parts, sep, n - 1), p \in parts}

\* raw labels: the strippable prefixes and suffixes, a word, a footnote
\* marker and a hyphen
KeyParts ==
    {<<"I", "n", "t", "e", "l", " ">>,
     <<"P", "r", "o", "c", "e", "s", "s", "o", "r", " ">>,
     <<"C", "P", "U", " ">>,
     <<"C", "o", "r", "e", "s">>,
     <<" ", "S", "u", "p", "p", "o", "r", "t">>,
     <<" ", "T", "e", "c", "h", "n", "o", "l", "o", "g", "y">>,
     <<"#">>,
     <<"-">>}
KeyInputs == Joined(KeyParts, <<>>, MaxParts)

\* canonical keys: words of every rule and words of none
CategoryWords ==
    {<<"c", "a", "c", "h", "e">>,
     <<"m", "e", "m", "o", "r", "y">>,
     <<"g", "r", "a", "p", "h", "i", "c", "s">>,
     <<"a", "i">>,
     <<"t", "d", "p">>,
     <<"u", "s", "b">>,
     <<"g", "u", "a", "r", "d">>,
     <<"s", "i", "z", "e">>,
     <<"m", "a", "x">>}
CategoryKeys == Joined(CategoryWords, <<"_">>, MaxParts)

\* raw code names
CodeNameParts ==
    {<<"P", "r", "o", "d", "u", "c", "t", "s", " ", "f", "o", "r", "m", "e", "r", "l", "y">>,
     <<"P", "R", "O", "D", "U", "C", "T", "S", " ", " ", "F", "O", "R", "M", "E", "R", "L", "Y">>,
     <<" ">>,
     <<":">>,
     <<" ", "L", "u", "n", "a", "r", " ", "L", "a", "k", "e">>}
CodeNames == {Str(s) : s \in Joined(CodeNameParts, <<>>, MaxParts)} \cup {None}

\* raw values of a numeric field
ValueParts ==
    {<<"8">>,
     <<".", "5">>,
     <<"i", "n", "f">>,
     <<"n", "a", "n">>,
     <<"-">>,
     <<" ">>,
     <<"G", "H", "z">>}
RawValues ==
    {Str(s) : s \in Joined(ValueParts, <<>>, MaxParts)} \cup {None, PyInt(0), PyInt(12)}

Page(sections, rows, tables, patterns, lithography, process_cells) ==
    [sections |-> sections, rows |-> rows, tables |-> tables, patterns |-> patterns,
     lithography |-> lithography, process_cells |-> process_cells]

\* a section may file a key under any of its categories, or under general
SectionNames == SpecCategories \cup {"general"}

\* one key, produced or not by each strategy, with a value that tells the
\* strategies apart; the section strategy files it under any section
KeyPages(keys, names) ==
    {Page(sec, r, t, pt, <<>>, <<>>) :
        sec \in UNION {{EmptyDict} \cup {c :> (k :> S_2) : c \in names} : k \in keys},
        r \in {EmptyDict} \cup {k :> S_6 : k \in keys},
        t \in {EmptyDict} \cup {k :> S_8 : k \in keys},
        pt \in {EmptyDict} \cup {k :> S_0 : k \in keys}}

\* values next to a Lithography label or in a process cell
LithographyValues ==
    {<<"I", "n", "t", "e", "l", " ", "6", "4">>,
     <<"I", "n", "t", "e", "l", " ", "7">>,
     <<"1", "4", " ", "n", "m", " ", "F", "i", "n", "F", "E", "T">>,
     <<"o", "n", " ", "1", "0", "n", "m", " ", "p", "r", "o", "c", "e", "s", "s">>,
     <<"I", "n", "t", "e", "l", " ", "6", "4", " ", "t", "e", "c", "h", "n", "o", "l", "o", "g", "y">>,
     <<"n", "/", "a">>}
RECURSIVE SeqsUpTo(_, _)
SeqsUpTo(S, n) ==
    IF n = 0 THEN {<<>>}
    ELSE SeqsUpTo(S, n - 1) \cup {Append(q, x) : q \in SeqsUpTo(S, n - 1), x \in S}
LithographyPages ==
    {Page(EmptyDict, EmptyDict, EmptyDict, EmptyDict, l, c) :
        l \in SeqsUpTo(LithographyValues, MaxLabels),
        c \in SeqsUpTo(LithographyValues, 1)}

ParserPages == KeyPages({"total_cores", "max_turbo_frequency"}, SectionNames)
               \cup LithographyPages

NextParser ==
    \/ \E key \in KeyInputs : CleanSpecificationKey(key)
    \/ \E key \in CategoryKeys : CategorizeSpecification(key)
    \/ \E page \in ParserPages : ExtractSpecifications(page)
    \/ \E page \in LithographyPages : ExtractLegacySpecifications(page)
    \/ \E code_name \in CodeNames : CleanCodeName(code_name)
    \/ \E code_name \in CodeNames : UpdaterCleanCodeName(code_name)
    \/ \E value \in RawValues : SafeInt(value)
    \/ \E value \in RawValues : SafeFloat(value)

SpecParser == Init /\ [][NextParser]_vars

(***************************************************************************)
(* crawler.py.  The body of the page loop of crawl, lines 134-145: the     *)
(* page is fetched and parsed, a record is appended to the result and      *)
(* handed to insert_cpu_specs.  A response is None when the request        *)
(* failed; a malformed one makes parse_cpu_page raise and return None.     *)
(* opened tells whether sqlite3 can open and use the database file.        *)
(***************************************************************************)
Response(page, cpu_name) ==
    [t |-> "response", malformed |-> FALSE, page |-> page, cpu_name |-> cpu_name]
MalformedResponse == [t |-> "response", malformed |-> TRUE]

\* cpu_name is what _extract_cpu_name_with_url finds in the page
parse_cpu_page(page, cpu_name, url) ==
    CpuData(url, cpu_name, _extract_specifications(page))

_scrape_cpu_page(response, cpu_url) ==
    IF response = None THEN None
    ELSE IF response.malformed THEN None
    ELSE parse_cpu_page(response.page, response.cpu_name, cpu_url)

\* an sqlite3.OperationalError inside the try block returns False
insert_or_error(tbl, sq, cpu_data, opened) ==
    IF opened THEN insert_cpu_specs(tbl, sq, cpu_data)
    ELSE [table |-> tbl, seq |-> sq, ret |-> except_clauses(Raise("OperationalError"))]

\* lines 135-145: nothing is stored without a record or without a database
scraped(tbl, sq, cpu_data, use_database, opened) ==
    IF cpu_data = None \/ ~use_database
    THEN [table |-> tbl, seq |-> sq, ret |-> None, cpu_data |-> cpu_data]
    ELSE LET r == insert_or_error(tbl, sq, cpu_data, opened)
         IN  [table |-> r.table, seq |-> r.seq, ret |-> r.ret, cpu_data |-> cpu_data]

Stored(r) ==
    /\ table' = r.table
    /\ seq' = r.seq
    /\ inserted' = IF r.ret = PyTrue THEN inserted \cup {r.cpu_data["url"]}
                   ELSE inserted

\* one page scraped and stored, on its own
ScrapeCpuPage(cpu_url, page) ==
    /\ call.op = "none"
    /\ LET r == scraped(table, seq, _scrape_cpu_page(Response(page, NameA), cpu_url),
                        TRUE, TRUE)
       IN  /\ Stored(r)
           /\ call' = [op |-> "_scrape_cpu_page", arg |-> page, ret |-> r.cpu_data,
                       success |-> r.ret]
    /\ UNCHANGED concVars
    /\ UNCHANGED <<crawler, updater>>

ScrapePages == KeyPages({"total_cores", "max_turbo_frequency"}, SectionNames)

NextScrape ==
    \E cpu_url \in Urls, page \in ScrapePages : ScrapeCpuPage(cpu_url, page)

SpecScrape == Init /\ [][NextScrape]_vars

(***************************************************************************)
(* _make_request, lines 214-241, one step per GET and per backoff sleep.   *)
(* call holds the request: pc is "get" before session.get, "sleep" before  *)
(* time.sleep(2 ** attempt) and "returned" after a return statement.       *)
(***************************************************************************)
MaxRetries == 3

RequestExceptions == {"Timeout", "ConnectionError", "HTTPError"}

\* time.sleep(2 ** attempt)
backoff(attempt) == 2 ^ attempt

\* for attempt in range(max_retries): nothing to do when it is empty
MakeRequest(url, max_retries) ==
    /\ call.op = "none"
    /\ call' = [op |-> "_make_request", url |-> url, max_retries |-> max_retries,
                attempt |-> 0, pc |-> IF max_retries > 0 THEN "get" ELSE "returned",
                ret |-> None, gets |-> 0, errors |-> <<>>, slept |-> <<>>]
    /\ UNCHANGED storeVars

\* after a failed attempt the loop is left at the last one
sleep_forever(attempt, max_retries) ==
    "sleep"

\* lines 234-239: return None after the last attempt, back off otherwise
after_failure(attempt, max_retries) ==
    IF attempt = max_retries - 1 THEN "returned" ELSE "sleep"

\* lines 228-236: the GET succeeds, or raises a RequestException
SessionGet(outcome) ==
    /\ call.op = "_make_request"
    /\ call.pc = "get"
    /\ call' = IF outcome = "ok"
               THEN [call EXCEPT !.gets = @ + 1, !.pc = "returned",
                                 !.ret = [t |-> "response", url |-> call.url]]
               ELSE [call EXCEPT !.gets = @ + 1,
                                 !.errors = Append(@, outcome),
                                 !.pc = after_failure(call.attempt, call.max_retries)]
    /\ UNCHANGED storeVars

\* lines 237-239, then the next attempt of the loop
Backoff ==
    /\ call.op = "_make_request"
    /\ call.pc = "sleep"
    /\ call' = [call EXCEPT !.slept = Append(@, backoff(call.attempt)),
                            !.attempt = @ + 1,
                            !.pc = "get"]
    /\ UNCHANGED storeVars

NextRequest ==
    \/ \E url \in Urls, max_retries \in 0..MaxRetries : MakeRequest(url, max_retries)
    \/ \E outcome \in {"ok"} \cup RequestExceptions : SessionGet(outcome)
    \/ Backoff

SpecRequest == Init /\ [][NextRequest]_vars

\* a started step is taken: the GET returns or times out, the sleep ends
SpecRequestFair == SpecRequest /\ WF_vars(NextRequest)

(***************************************************************************)
(* crawl, lines 101-166, one step per iteration of its loops.  pc is       *)
(* "idle" before the call, "base" at the head of the loop over base_urls,  *)
(* "page" at the head of the loop over cpu_urls, "returned" after line 166 *)
(* and "raised" when an exception has left the method.  Each _make_request *)
(* of a step is given by the number of GETs it issued; requests counts the *)
(* GETs of the run, fetched the detail pages requested, waited is the      *)
(* time slept since the last GET and gaps the waits found between two      *)
(* consecutive GETs.                                                       *)
(***************************************************************************)
NumBaseUrls == 2
MaxPages == 1

\* _get_cpu_urls: the first n detail urls, none when the listing failed
FoundLists == {[j \in 1..n |-> Str(<<"u", Digits[j + 1]>>)] : n \in 0..NumUrls}

\* lines 125-126
Limited(cpu_urls, max_pages) ==
    IF max_pages > 0 /\ max_pages < Len(cpu_urls)
    THEN SubSeq(cpu_urls, 1, max_pages) ELSE cpu_urls

\* a negative delay makes time.sleep raise ValueError
Delays == {-1, 1, 2}

\* the GETs of one _make_request: all of max_retries when it returns None,
\* at least one when it returns a response
Gets(max_retries, responded) ==
    IF responded THEN 1..max_retries ELSE {max_retries}

\* the waits between the GETs of one _make_request that issued gets of them
backoffs(gets) == {backoff(attempt) : attempt \in 0..(gets - 2)}

\* the waits between consecutive GETs after a _make_request with gets GETs
gaps_after(c, gets) ==
    c.gaps \cup (IF gets > 0 /\ c.requests > 0 THEN {c.waited} ELSE {})
           \cup backoffs(gets)

\* the time slept since the last GET, after the request and a sleep of slept
waited_after(c, gets, slept) == (IF gets > 0 THEN 0 ELSE c.waited) + slept

Requested(c, gets, slept) ==
    [c EXCEPT !.requests = @ + gets,
              !.gaps = gaps_after(c, gets),
              !.waited = waited_after(c, gets, slept)]

Crawl(max_pages, delay, use_database, max_retries) ==
    /\ crawler.pc = "idle"
    /\ crawler' = [crawler EXCEPT !.pc = "base", !.base = 1, !.max_pages = max_pages,
                                  !.delay = delay, !.use_database = use_database,
                                  !.max_retries = max_retries]
    /\ UNCHANGED <<table, seq, call, inserted>>
    /\ UNCHANGED concVars
    /\ UNCHANGED updater

\* lines 116-127; with an empty list the loop over base_urls goes on
GetCpuUrls(found, gets) ==
    /\ crawler.pc = "base"
    /\ crawler.base <= NumBaseUrls
    /\ gets \in Gets(crawler.max_retries, TRUE)
                \cup (IF found = <<>> THEN Gets(crawler.max_retries, FALSE) ELSE {})
    /\ LET cpu_urls == Limited(found, crawler.max_pages)
       IN  crawler' = [Requested(crawler, gets, 0) EXCEPT
                          !.pc = IF cpu_urls = <<>> THEN "base" ELSE "page",
                          !.base = IF cpu_urls = <<>> THEN @ + 1 ELSE @,
                          !.cpu_urls = cpu_urls,
                          !.i = 1,
                          !.found = Append(@, cpu_urls)]
    /\ UNCHANGED <<table, seq, call, inserted>>
    /\ UNCHANGED concVars
    /\ UNCHANGED updater

\* lines 147-153: the sleep between two pages and what it raises
sleep_raises(i, cpu_urls, delay) == i < Len(cpu_urls) /\ delay < 0
slept(i, cpu_urls, delay) == IF i < Len(cpu_urls) /\ delay >= 0 THEN delay ELSE 0

Outcome(r, raises) ==
    [result |-> IF r.cpu_data = None THEN "none"
                ELSE IF r.ret = PyTrue THEN "stored"
                ELSE IF r.ret = PyFalse THEN "rejected" ELSE "scraped",
     raised |-> raises]

\* lines 130-153, one iteration
ProcessCpuUrl(response, opened, gets) ==
    /\ crawler.pc = "page"
    /\ gets \in Gets(crawler.max_retries, response # None)
    /\ LET cpu_url == crawler.cpu_urls[crawler.i]
           r == scraped(table, seq, _scrape_cpu_page(response, cpu_url),
                        crawler.use_database, opened)
           last == crawler.i = Len(crawler.cpu_urls)
       IN  /\ Stored(r)
           /\ crawler' = [Requested(crawler, gets,
                                    slept(crawler.i, crawler.cpu_urls, crawler.delay))
                  EXCEPT
                  !.pc = IF last THEN "base" ELSE "page",
                  !.base = IF last THEN @ + 1 ELSE @,
                  !.i = @ + 1,
                  !.all_cpus = IF r.cpu_data = None THEN @ ELSE Append(@, r.cpu_data),
                  !.attempted = Append(@, cpu_url),
                  !.fetched = IF gets > 0 THEN @ + 1 ELSE @,
                  !.outcomes = Append(@, Outcome(r, sleep_raises(crawler.i,
                                                     crawler.cpu_urls, crawler.delay)))]
    /\ UNCHANGED call
    /\ UNCHANGED concVars
    /\ UNCHANGED updater

\* lines 159-166: get_cpu_count is called outside every try block
Finish(opened) ==
    /\ crawler.pc = "base"
    /\ crawler.base > NumBaseUrls
    /\ crawler' = [crawler EXCEPT
                      !.pc = IF crawler.use_database /\ ~opened THEN "raised"
                             ELSE "returned"]
    /\ UNCHANGED <<table, seq, call, inserted>>
    /\ UNCHANGED concVars
    /\ UNCHANGED updater

CrawlPage == Page(EmptyDict, "total_cores" :> S_6, EmptyDict, EmptyDict, <<>>, <<>>)
Responses == {None, MalformedResponse, Response(CrawlPage, NameA)}

NextCrawl ==
    \/ \E max_pages \in 0..MaxPages, delay \in Delays, use_database \in BOOLEAN,
          max_retries \in {0, 1, MaxRetries} :
           Crawl(max_pages, delay, use_database, max_retries)
    \/ \E found \in FoundLists, gets \in 0..MaxRetries : GetCpuUrls(found, gets)
    \/ \E response \in Responses, opened \in BOOLEAN, gets \in 0..MaxRetries :
           ProcessCpuUrl(response, opened, gets)
    \/ \E opened \in BOOLEAN : Finish(opened)

SpecCrawl == Init /\ [][NextCrawl]_vars

(***************************************************************************)
(* scripts/update_database.py.  run_update, lines 200-314, one step per    *)
(* family checked and per product added.  pc is "idle" before the call,    *)
(* "check" in the loop of check_for_new_products, "add" in the loops of    *)
(* add_new_products and "returned" after a return statement.               *)
(***************************************************************************)
NumFamilies == 2

\* lines 112-113, the mutant keeps every url
all_urls(cpu_urls, existing_urls) ==
    cpu_urls

\* line 113: [url for url in cpu_urls if url not in existing_urls]
new_urls(cpu_urls, existing_urls) ==
    LET absent(url) == url \notin existing_urls
    IN  SelectSeq(cpu_urls, absent)

\* get_existing_urls, lines 47-64
get_existing_urls(tbl) == {r.url : r \in tbl}

RunUpdate(delay_seconds, dry_run) ==
    /\ updater.pc = "idle"
    /\ updater' = [updater EXCEPT !.pc = "check", !.family = 1,
                                  !.existing_urls = get_existing_urls(table),
                                  !.delay_seconds = delay_seconds,
                                  !.dry_run = dry_run]
    /\ UNCHANGED <<table, seq, call, inserted, crawler>>
    /\ UNCHANGED concVars

RECURSIVE SumLen(_)
SumLen(products) ==
    IF products = <<>> THEN 0 ELSE Len(Head(products)) + SumLen(Tail(products))

\* lines 110-118: a family with new urls is added to new_products
found_new(new_products, cpu_urls, existing_urls) ==
    IF new_urls(cpu_urls, existing_urls) # <<>>
    THEN Append(new_products, new_urls(cpu_urls, existing_urls))
    ELSE new_products

\* run_update after check_for_new_products, lines 233-269, and the entry of
\* add_new_products, lines 143-154
after_check(u, new_products) ==
    IF SumLen(new_products) = 0 \/ u.dry_run
    THEN [u EXCEPT !.pc = "returned", !.new_products = new_products]
    ELSE [u EXCEPT !.pc = "add", !.new_products = new_products, !.k = 1, !.j = 1,
                   !.stats = [@ EXCEPT !.total_new = SumLen(new_products)]]

\* lines 106-131, one iteration; the sleep between two families may raise,
\* after the family has been recorded
CheckFamily(cpu_urls) ==
    /\ updater.pc = "check"
    /\ LET new_products == found_new(updater.new_products, cpu_urls,
                                     updater.existing_urls)
           listed == updater.listed \cup {cpu_urls[n] : n \in 1..Len(cpu_urls)}
       IN  updater' =
               IF updater.family < NumFamilies
               THEN [updater EXCEPT !.family = @ + 1, !.new_products = new_products,
                                    !.listed = listed]
               ELSE [after_check(updater, new_products) EXCEPT !.listed = listed]
    /\ UNCHANGED <<table, seq, call, inserted, crawler>>
    /\ UNCHANGED concVars

\* lines 172-186: the bucket of one product
counted(stats, r) ==
    IF r.cpu_data = None THEN [stats EXCEPT !.failed = @ + 1]
    ELSE IF r.ret = PyTrue THEN [stats EXCEPT !.successful = @ + 1]
    ELSE [stats EXCEPT !.skipped = @ + 1]

\* lines 188-194: the sleep between two products, and the except clause
\* that counts a failure when it raises
after_sleep(stats, overall_idx, delay_seconds) ==
    IF overall_idx < stats.total_new /\ delay_seconds < 0
    THEN [stats EXCEPT !.failed = @ + 1]
    ELSE stats

\* lines 163-194, one iteration of the inner loop
AddProduct(response, opened) ==
    /\ updater.pc = "add"
    /\ LET cpu_urls == updater.new_products[updater.k]
           cpu_url == cpu_urls[updater.j]
           overall_idx == updater.overall_idx + 1
           r == scraped(table, seq, _scrape_cpu_page(response, cpu_url), TRUE, opened)
           last_url == updater.j = Len(cpu_urls)
           last_family == updater.k = Len(updater.new_products)
       IN  /\ Stored(r)
           /\ updater' = [updater EXCEPT
                  !.pc = IF last_url /\ last_family THEN "returned" ELSE "add",
                  !.k = IF last_url THEN @ + 1 ELSE @,
                  !.j = IF last_url THEN 1 ELSE @ + 1,
                  !.overall_idx = overall_idx,
                  !.fetched = Append(@, [url |-> cpu_url,
                                         stored |-> _cpu_exists(table, cpu_url)]),
                  !.stats = after_sleep(counted(@, r), overall_idx,
                                        updater.delay_seconds)]
    /\ UNCHANGED <<call, crawler>>
    /\ UNCHANGED concVars

\* the store before the run: records of earlier runs
UpdateSeeds == {CpuData(u, NameA, EmptyDict) : u \in Urls}

Seed(cpu_data) ==
    /\ updater.pc = "idle"
    /\ Insert(cpu_data)

NextUpdate ==
    \/ \E cpu_data \in UpdateSeeds : Seed(cpu_data)
    \/ \E delay_seconds \in Delays, dry_run \in BOOLEAN : RunUpdate(delay_seconds, dry_run)
    \/ \E cpu_urls \in FoundLists : CheckFamily(cpu_urls)
    \/ \E response \in Responses, opened \in BOOLEAN : AddProduct(response, opened)

SpecUpdate == Init /\ [][NextUpdate]_vars

(***************************************************************************)
(* parser.py, the URL classifier.  A url is a sequence of characters.      *)
(***************************************************************************)
\* _is_us_english_url, lines 167-177
_is_us_english_url(url) ==
    /\ Contains(Lower(url), <<"/", "u", "s", "/", "e", "n", "/">>)
    /\ Contains(Lower(url), <<"i", "n", "t", "e", "l", ".", "c", "o", "m">>)

W_sku == <<"/", "s", "k", "u", "/">>
W_specifications_html == <<"s", "p", "e", "c", "i", "f", "i", "c", "a", "t", "i", "o", "n", "s", ".", "h", "t", "m", "l">>
W_products_sku == <<"/", "p", "r", "o", "d", "u", "c", "t", "s", "/", "s", "k", "u", "/">>

\* line 126
cpu_families ==
    {<<"c", "o", "r", "e">>,
    <<"x", "e", "o", "n">>,
    <<"p", "e", "n", "t", "i", "u", "m">>,
    <<"c", "e", "l", "e", "r", "o", "n">>,
    <<"a", "t", "o", "m">>}

\* lines 130-142
marketing_excludes ==
    {<<"/", "p", "r", "o", "d", "u", "c", "t", "s", "/", "d", "e", "t", "a", "i", "l", "s", "/", "p", "r", "o", "c", "e", "s", "s", "o", "r", "s", ".", "h", "t", "m", "l">>,
    <<"/", "p", "r", "o", "d", "u", "c", "t", "s", "/", "d", "e", "t", "a", "i", "l", "s", "/", "p", "r", "o", "c", "e", "s", "s", "o", "r", "s", "/", "c", "o", "r", "e", ".", "h", "t", "m", "l">>,
    <<"/", "p", "r", "o", "d", "u", "c", "t", "s", "/", "d", "e", "t", "a", "i", "l", "s", "/", "p", "r", "o", "c", "e", "s", "s", "o", "r", "s", "/", "x", "e", "o", "n", ".", "h", "t", "m", "l">>,
    <<"/", "p", "r", "o", "d", "u", "c", "t", "s", "/", "d", "e", "t", "a", "i", "l", "s", "/", "p", "r", "o", "c", "e", "s", "s", "o", "r", "s", "/", "a", "t", "o", "m", ".", "h", "t", "m", "l">>,
    <<"/", "p", "r", "o", "d", "u", "c", "t", "s", "/", "o", "v", "e", "r", "v", "i", "e", "w", ".", "h", "t", "m", "l">>,
    <<"/", "p", "r", "o", "c", "e", "s", "s", "o", "r", "s", "/", "p", "r", "o", "c", "e", "s", "s", "o", "r", "-", "n", "u", "m", "b", "e", "r", "s", ".", "h", "t", "m", "l">>,
    <<"/", "p", "r", "o", "d", "u", "c", "t", "s", "/", "d", "o", "c", "s", "/">>,
    <<"w", "h", "e", "r", "e", "-", "t", "o", "-", "b", "u", "y">>,
    <<"a", "i", "-", "p", "c">>,
    <<"/", "e", "d", "g", "e", ".", "h", "t", "m", "l">>,
    <<"1", "4", "t", "h", "-", "g", "e", "n", ".", "h", "t", "m", "l">>}

\* r'/sku/\d+/'
SkuNumber(l) ==
    \E i \in 1..Len(l) :
        /\ StartsWith(l, i, W_sku)
        /\ DigitRunEnd(l, i + Len(W_sku)) >= i + Len(W_sku)
        /\ StartsWith(l, DigitRunEnd(l, i + Len(W_sku)) + 1, <<"/">>)

\* lines 150-154
cpu_spec_patterns(l) ==
    \/ SkuNumber(l)
    \/ Contains(l, W_specifications_html)
    \/ Contains(l, W_products_sku)

\* line 160
cpu_indicators == cpu_families \cup {<<"p", "r", "o", "c", "e", "s", "s", "o", "r">>}

\* lines 118-165, after the check of the locale
never_excluded(url_lower) == FALSE

\* the loop over marketing_excludes
excluded(url_lower) == \E exclude \in marketing_excludes : Contains(url_lower, exclude)

\* the three priority tests, which return True before any exclusion is tried
priority(url_lower) ==
    \/ Contains(url_lower, W_sku) /\ Contains(url_lower, W_specifications_html)
    \/ Contains(url_lower, W_products_sku)
    \/ /\ Contains(url_lower, W_specifications_html)
       /\ \E cpu \in cpu_families : Contains(url_lower, cpu)

classified(url_lower) ==
    IF Contains(url_lower, W_sku) /\ Contains(url_lower, W_specifications_html)
    THEN TRUE
    ELSE IF Contains(url_lower, W_products_sku) THEN TRUE
    ELSE IF /\ Contains(url_lower, W_specifications_html)
            /\ \E cpu \in cpu_families : Contains(url_lower, cpu)
    THEN TRUE
    ELSE IF excluded(url_lower) THEN FALSE
    ELSE /\ cpu_spec_patterns(url_lower)
         /\ \E indicator \in cpu_indicators : Contains(url_lower, indicator)

_is_cpu_url(url) == _is_us_english_url(url) /\ classified(Lower(url))

(***************************************************************************)
(* extract_cpu_urls, lines 63-94, and _find_specification_urls, lines      *)
(* 179-243.  A page is what the selectors find in soup: the hrefs of the   *)
(* selected anchors, the quoted strings of the scripts that hold sku or    *)
(* specifications, the data-url attributes that hold one of them, the      *)
(* values of the hidden inputs and the urls of the JSON-LD data.           *)
(***************************************************************************)
W_http == <<"h", "t", "t", "p">>
W_sku_word == <<"s", "k", "u">>
W_specifications == <<"s", "p", "e", "c", "i", "f", "i", "c", "a", "t", "i", "o", "n", "s">>
base_url == <<"h", "t", "t", "p", "s", ":", "/", "/", "w", "w", "w", ".", "i", "n", "t", "e", "l", ".", "c", "o", "m", "/", "c", "o", "n", "t", "e", "n", "t", "/", "w", "w", "w", "/", "u", "s", "/", "e", "n", "/", "p", "r", "o", "d", "u", "c", "t", "s", "/", "d", "e", "t", "a", "i", "l", "s", "/", "p", "r", "o", "c", "e", "s", "s", "o", "r", "s", ".", "h", "t", "m", "l">>

\* scheme and host of an absolute url: up to the first / after https://
origin(url) ==
    LET k == CHOOSE i \in 9..(Len(url) + 1) :
                 /\ i = Len(url) + 1 \/ url[i] = "/"
                 /\ \A j \in 9..(i - 1) : url[j] # "/"
    IN  SubSeq(url, 1, k - 1)

\* urljoin of an absolute url or of an absolute path
urljoin(base, href) ==
    IF StartsWith(href, 1, W_http) THEN href ELSE origin(base) \o href

names_sku_or_specifications(x) ==
    Contains(x, W_sku_word) \/ Contains(x, W_specifications)

\* Method 1, lines 194-202: the match is tested, the joined url is kept
from_scripts(matches, base) ==
    LET kept(match) == /\ Contains(match, <<"/", "u", "s", "/", "e", "n", "/">>)
                       /\ names_sku_or_specifications(match)
        joined == [n \in 1..Len(matches) |-> urljoin(base, matches[n])]
        test(n) == kept(matches[n])
    IN  [n \in {k \in 1..Len(matches) : test(k)} |-> joined[n]]

\* the elements of a sequence that pass a test, as a set
Kept(xs, Test(_)) == {xs[n] : n \in {k \in 1..Len(xs) : Test(xs[k])}}

\* Method 2, lines 205-211
from_data_urls(data_urls, base) ==
    LET selected == SelectSeq(data_urls, names_sku_or_specifications)
    IN  Kept([n \in 1..Len(selected) |-> urljoin(base, selected[n])], _is_us_english_url)

\* Method 3, lines 214-223
from_hidden_inputs(values, base) ==
    LET absolute(value) == /\ names_sku_or_specifications(value)
                           /\ StartsWith(value, 1, W_http)
                           /\ _is_us_english_url(value)
        relative(value) == /\ names_sku_or_specifications(value)
                           /\ ~StartsWith(value, 1, W_http)
                           /\ StartsWith(value, 1, <<"/">>)
                           /\ _is_us_english_url(urljoin(base, value))
    IN  Kept(values, absolute)
            \cup {urljoin(base, value) : value \in Kept(values, relative)}

\* Method 4, lines 226-238
from_json(urls) ==
    LET kept(url) == names_sku_or_specifications(url) /\ _is_us_english_url(url)
    IN  Kept(urls, kept)

\* list(set(spec_urls)): the urls of the four methods, without duplicates
_find_specification_urls(page, base) ==
    {from_scripts(page.scripts, base)[n] : n \in DOMAIN from_scripts(page.scripts, base)}
        \cup from_data_urls(page.data_urls, base)
        \cup from_hidden_inputs(page.hidden_inputs, base)
        \cup from_json(page.json_urls)

\* list(dict.fromkeys(xs)): the first occurrence of each element
RECURSIVE Deduplicated(_)
Deduplicated(xs) ==
    IF xs = <<>> THEN <<>>
    ELSE LET front == Deduplicated(SubSeq(xs, 1, Len(xs) - 1))
             x == xs[Len(xs)]
         IN  IF \E n \in 1..Len(front) : front[n] = x THEN front ELSE Append(front, x)

\* lines 63-71: the joined hrefs that _is_cpu_url accepts
cpu_links(links, base) ==
    LET joined == [n \in 1..Len(links) |-> urljoin(base, links[n])]
    IN  SelectSeq(joined, _is_cpu_url)

\* lines 84-88: specification urls first, then the others
IsSpecUrl(url) == Contains(url, W_specifications_html) \/ Contains(url, W_sku)
IsOtherUrl(url) == ~IsSpecUrl(url)
final_urls(cpu_urls) == SelectSeq(cpu_urls, IsSpecUrl) \o SelectSeq(cpu_urls, IsOtherUrl)

\* the sequences that list a set once each: the order of list(set(...))
Orders(S) ==
    {xs \in UNION {[1..n -> S] : n \in {Cardinality(S)}} :
        \A a, b \in 1..Len(xs) : xs[a] = xs[b] => a = b}

\* additional_urls is _find_specification_urls(soup, base_url) in some order
extract_cpu_urls(page, base, additional_urls) ==
    final_urls(Deduplicated(Deduplicated(cpu_links(page.links, base)) \o additional_urls))

IsCpuUrl(url) ==
    /\ call.op = "none"
    /\ call' = [op |-> "_is_cpu_url", arg |-> url, ret |-> _is_cpu_url(url)]
    /\ UNCHANGED storeVars

ExtractCpuUrls(page, additional_urls) ==
    /\ call.op = "none"
    /\ additional_urls \in Orders(_find_specification_urls(page, base_url))
    /\ call' = [op |-> "extract_cpu_urls", arg |-> page,
                ret |-> extract_cpu_urls(page, base_url, additional_urls)]
    /\ UNCHANGED storeVars

\* hosts with and without the locale, and one that is not intel.com
UrlHosts ==
    {<<"h", "t", "t", "p", "s", ":", "/", "/", "i", "n", "t", "e", "l", ".", "c", "o", "m", "/">>,
    <<"h", "t", "t", "p", "s", ":", "/", "/", "w", "w", "w", ".", "i", "n", "t", "e", "l", ".", "c", "o", "m", "/", "c", "o", "n", "t", "e", "n", "t", "/", "w", "w", "w", "/", "u", "s", "/", "e", "n", "/">>,
    <<"h", "t", "t", "p", "s", ":", "/", "/", "w", "w", "w", ".", "i", "n", "t", "e", "l", ".", "c", "o", "m", "/", "c", "o", "n", "t", "e", "n", "t", "/", "w", "w", "w", "/", "d", "e", "/", "d", "e", "/">>,
    <<"h", "t", "t", "p", "s", ":", "/", "/", "e", "x", "a", "m", "p", "l", "e", ".", "c", "o", "m", "/", "u", "s", "/", "e", "n", "/">>}

\* paths of processors, of other content, of sku and specification pages,
\* and the marketing markers
UrlSegments ==
    {<<"p", "r", "o", "c", "e", "s", "s", "o", "r", "s", "/", "c", "o", "r", "e", "-", "i", "7", "/">>,
    <<"c", "p", "u", "/", "x", "e", "o", "n", "-", "p", "l", "a", "t", "i", "n", "u", "m", "/">>,
    <<"p", "r", "o", "d", "u", "c", "t", "s", "/", "p", "e", "n", "t", "i", "u", "m", "-", "g", "o", "l", "d", "/">>,
    <<"g", "r", "a", "p", "h", "i", "c", "s", "/", "a", "r", "c", "/">>,
    <<"s", "u", "p", "p", "o", "r", "t", "/", "d", "o", "w", "n", "l", "o", "a", "d", "s", "/">>,
    <<"a", "b", "o", "u", "t", "-", "u", "s", "/">>,
    <<"p", "r", "o", "d", "u", "c", "t", "s", "/", "s", "k", "u", "/", "1", "2", "3", "/">>,
    <<"s", "k", "u", "/", "1", "2", "3", "4", "5", "/">>,
    <<"p", "r", "o", "d", "u", "c", "t", "s", "/", "d", "o", "c", "s", "/">>,
    <<"w", "h", "e", "r", "e", "-", "t", "o", "-", "b", "u", "y", "/">>,
    <<"c", "o", "r", "e", "-", "a", "i", "-", "p", "c", "/">>,
    <<"e", "d", "g", "e", ".", "h", "t", "m", "l">>,
    <<"1", "4", "t", "h", "-", "g", "e", "n", ".", "h", "t", "m", "l">>,
    <<"s", "p", "e", "c", "i", "f", "i", "c", "a", "t", "i", "o", "n", "s", ".", "h", "t", "m", "l">>,
    <<"a", "r", "c", "-", "g", "r", "a", "p", "h", "i", "c", "s", "/">>}

MaxSegments == 2

RECURSIVE Paths(_)
Paths(n) ==
    IF n = 0 THEN {<<>>}
    ELSE {<<>>} \cup {path \o segment : path \in Paths(n - 1), segment \in UrlSegments}

ClassifierUrls == {host \o path : host \in UrlHosts, path \in Paths(MaxSegments) \ {<<>>}}

\* what a page holds: absolute urls of one segment and their absolute paths
PageUrls ==
    {host \o segment : host \in UrlHosts, segment \in UrlSegments}
        \cup {<<"/", "c", "o", "n", "t", "e", "n", "t", "/", "w", "w", "w", "/", "u", "s", "/", "e", "n", "/">> \o segment : segment \in UrlSegments}

SoupPage(links, scripts, data_urls, hidden_inputs, json_urls) ==
    [links |-> links, scripts |-> scripts, data_urls |-> data_urls,
     hidden_inputs |-> hidden_inputs, json_urls |-> json_urls]

\* pages with one url, in an anchor or in one of the four other places; a
\* url of the JSON-LD data is a quoted string of a script as well
SoupPages ==
    UNION {{SoupPage(<<u>>, <<>>, <<>>, <<>>, <<>>), SoupPage(<<>>, <<u>>, <<>>, <<>>, <<>>),
            SoupPage(<<>>, <<>>, <<u>>, <<>>, <<>>), SoupPage(<<>>, <<>>, <<>>, <<u>>, <<>>),
            SoupPage(<<>>, <<u>>, <<>>, <<>>, <<u>>)} : u \in PageUrls}

NextUrls ==
    \/ \E url \in ClassifierUrls : IsCpuUrl(url)
    \/ \E page \in SoupPages :
           \E additional_urls \in Orders(_find_specification_urls(page, base_url)) :
               ExtractCpuUrls(page, additional_urls)

SpecUrls == Init /\ [][NextUrls]_vars

(***************************************************************************)
(* scripts/merge_databases.py.  Both databases hold the table the store    *)
(* creates; the target is the store of this model, the source is another   *)
(* database filled by the same insert_cpu_specs.                           *)
(***************************************************************************)
MaxSourceRows == 2

\* SELECT * FROM source, line 73: the rows as the table scan gives them,
\* in id order
RECURSIVE source_records(_)
source_records(rows) ==
    IF rows = {} THEN <<>>
    ELSE LET first == CHOOSE r \in rows : \A q \in rows : r.id <= q.id
         IN  <<first>> \o source_records(rows \ {first})

\* SELECT url FROM target, lines 96-97
existing_urls(tbl) == {r.url : r \in tbl}

\* the INSERT of line 116 names every column of the source row, the id
\* included: id is the PRIMARY KEY of the target and url is UNIQUE
PrimaryKeyViolation(tbl, record) == \E r \in tbl : r.id = record.id

SqlInsertRecord(tbl, record) == tbl \cup {record}

\* an explicit id larger than any given out moves sqlite_sequence
seq_after(sq, record) == IF record.id > sq THEN record.id ELSE sq

\* one pass of the loop of lines 108-125; m holds the target, the urls
\* known to be in it and the three counters
merge_record(m, record) ==
    IF record.url \in m.existing_urls
    THEN [m EXCEPT !.skipped = @ + 1]
    ELSE IF PrimaryKeyViolation(m.table, record) \/ UniqueViolation(m.table, record)
    THEN [m EXCEPT !.errors = @ + 1]
    ELSE [m EXCEPT !.table = SqlInsertRecord(@, record),
                   !.seq = seq_after(@, record),
                   !.inserted = @ + 1,
                   !.existing_urls = @ \cup {record.url}]

RECURSIVE merge_loop(_, _)
merge_loop(m, records) ==
    IF records = <<>> THEN m
    ELSE merge_loop(merge_record(m, Head(records)), Tail(records))

\* lines 37-149: False when a file is missing, else the loop, the commit
\* and True
merge_databases(source_exists, source, target_exists, tbl, sq) ==
    LET m0 == [table |-> tbl, seq |-> sq, existing_urls |-> existing_urls(tbl),
               inserted |-> 0, skipped |-> 0, errors |-> 0]
        m  == merge_loop(m0, source_records(source))
    IN  IF ~source_exists \/ ~target_exists
        THEN [table |-> tbl, seq |-> sq, ret |-> PyFalse, inserted |-> 0,
              skipped |-> 0, errors |-> 0]
        ELSE [table |-> m.table, seq |-> m.seq, ret |-> PyTrue,
              inserted |-> m.inserted, skipped |-> m.skipped, errors |-> m.errors]

\* a target file that does not exist holds no rows
MergeDatabases(source_exists, source, target_exists) ==
    /\ updater.pc = "idle"
    /\ ~target_exists => (table = {} /\ seq = 0)
    /\ ~source_exists => source = {}
    /\ LET r == merge_databases(source_exists, source, target_exists, table, seq)
       IN  /\ table' = r.table
           /\ seq' = r.seq
           /\ call' = [op |-> "merge_databases", source |-> source, target |-> table,
                       ret |-> r.ret, inserted |-> r.inserted, skipped |-> r.skipped,
                       errors |-> r.errors]
    /\ UNCHANGED inserted
    /\ UNCHANGED concVars
    /\ UNCHANGED <<crawler, updater>>

\* the database that insert_cpu_specs builds from a sequence of records
RECURSIVE Filled(_)
Filled(cpu_datas) ==
    IF cpu_datas = <<>> THEN [table |-> {}, seq |-> 0]
    ELSE LET before == Filled(SubSeq(cpu_datas, 1, Len(cpu_datas) - 1))
         IN  insert_cpu_specs(before.table, before.seq, cpu_datas[Len(cpu_datas)])

MergeSeeds == {CpuData(u, n, EmptyDict) : u \in Urls, n \in {NameA, NameB}}

SourceDatabases == {Filled(cpu_datas).table : cpu_datas \in SeqsUpTo(MergeSeeds, MaxSourceRows)}

NextMerge ==
    \/ \E cpu_data \in MergeSeeds : Seed(cpu_data)
    \/ \E source \in SourceDatabases, source_exists \in BOOLEAN, target_exists \in BOOLEAN :
           MergeDatabases(source_exists, source, target_exists)

SpecMerge == Init /\ [][NextMerge]_vars

(***************************************************************************)
(* Properties.                                                             *)
(***************************************************************************)
IsInsert(c) == c.op = "insert_cpu_specs"
HasUrl(c) == IsInsert(c) /\ "url" \in DOMAIN c.arg
RowsOf(tbl, url) == {r \in tbl : r.url = url}

\* C1: after any sequence of inserts the store holds at most one row per
\* url, and exactly one row for every url for which an insert returned True.
C1_OneRowPerUrl ==
    /\ \A r1, r2 \in table : r1.url = r2.url => r1 = r2
    /\ \A u \in inserted : Cardinality(RowsOf(table, u)) = 1

\* an insert of a stored url was rejected while its row stands
C1_Witness ==
    /\ HasUrl(call)
    /\ call.ret = PyFalse
    /\ call.arg["url"] \in inserted
    /\ get_cpu_count(table) = NumUrls

\* C2: an insert of a record whose url is already stored returns False and
\* leaves get_cpu_count() as it was; so does the second of two inserts of
\* the same record.
C2_DuplicateRejected ==
    [][/\ (HasUrl(call') /\ RowsOf(table, call'.arg["url"]) # {})
            => (call'.ret = PyFalse /\ get_cpu_count(table') = get_cpu_count(table))
       /\ (IsInsert(call) /\ call.ret = PyTrue /\ IsInsert(call') /\ call'.arg = call.arg)
            => (call'.ret = PyFalse /\ get_cpu_count(table') = get_cpu_count(table))]_vars

\* the re-insert of a stored record returned False
C2_Witness ==
    /\ HasUrl(call)
    /\ call.ret = PyFalse
    /\ \E r \in table : r.url = call.arg["url"] /\ r.name = Get(call.arg, "name")

\* C3 as stated: an insert of any record whose url is not stored returns
\* True and adds one row.
C3_AnyRecordStored ==
    [][(HasUrl(call') /\ RowsOf(table, call'.arg["url"]) = {})
            => /\ call'.ret = PyTrue
               /\ get_cpu_count(table') = get_cpu_count(table) + 1]_vars

\* a raw value of an integer column that is a spelling of infinity: float()
\* takes it and int() raises OverflowError, which _safe_int does not catch
IntegerKeys == {"total_cores", "performance_cores", "efficiency_cores"}
SpellsInfinity(v) ==
    /\ v.t = "str"
    /\ \A i \in 1..Len(v.v) : ~IsDigit(v.v[i])
    /\ FloatOfWord(v.v).t = "inf"
CoercionRaises(cpu_data) ==
    \E k \in IntegerKeys :
        SpellsInfinity(Get(all_specs(GetDict(cpu_data, "specifications")), k))
Storable(cpu_data) ==
    /\ cpu_data["url"] # None
    /\ "name" \in DOMAIN cpu_data
    /\ cpu_data["name"] # None
    /\ ~CoercionRaises(cpu_data)

\* C3, amended: an insert of a record whose url is not stored returns True
\* and adds exactly one row, that of its url, when the record has a url and
\* a name that are not null and no raw value whose coercion raises; any
\* other record whose url is not stored returns False and stores nothing.
C3_StorableRecordStored ==
    [][(HasUrl(call') /\ RowsOf(table, call'.arg["url"]) = {})
            => IF Storable(call'.arg)
               THEN /\ call'.ret = PyTrue
                    /\ get_cpu_count(table') = get_cpu_count(table) + 1
                    /\ table \subseteq table'
                    /\ \A r \in table' \ table :
                          r.url = call'.arg["url"] /\ r.name = call'.arg["name"]
               ELSE call'.ret = PyFalse /\ table' = table]_vars

\* a second record was stored
C3_Witness ==
    /\ HasUrl(call)
    /\ call.ret = PyTrue
    /\ get_cpu_count(table) = 2
    /\ RowsOf(table, call.arg["url"]) # {}

\* C4: no insert changes or removes a stored row, and the backfill changes
\* no column of a stored row but code_name and adds or removes no row.
C4_StoredRowsStay ==
    [][/\ IsInsert(call') => table \subseteq table'
       /\ call'.op = "update_code_names"
            => /\ get_cpu_count(table') = get_cpu_count(table)
               /\ \A r \in table :
                     \E r2 \in table' : r2 = [r EXCEPT !.code_name = r2.code_name]]_vars

\* the backfill gave a stored row a code name that its insert had not
C4_Witness ==
    /\ call.op = "update_code_names"
    /\ call.updated >= 1
    /\ \E r \in table :
          /\ r.code_name # None
          /\ r.code_name # _clean_code_name(Get(all_specs(r.additional_specs.v), "code_name"))

\* C6: insert_cpu_specs returns True or False for every record, never an
\* exception, and a call that returns False leaves the rows as they were.
C6_BooleanNotException ==
    [][IsInsert(call')
            => /\ call'.ret \in {PyTrue, PyFalse}
               /\ call'.ret = PyFalse => table' = table]_vars

\* False, with rows standing, for a new record whose core count cannot be
\* coerced
C6_Witness ==
    /\ HasUrl(call)
    /\ call.ret = PyFalse
    /\ table # {}
    /\ RowsOf(table, call.arg["url"]) = {}
    /\ CoercionRaises(call.arg)

\* C5: under any interleaving of concurrent inserts and reads, a reader
\* sees for each url no row or one row, every row it sees is the complete
\* row of one call, and at most one insert of a url returns True.
ReturnedTrue(u) ==
    {c \in Conns : conn[c].pc = "done" /\ conn[c].ret = PyTrue /\ conn[c].arg["url"] = u}
C5_AtomicPerRecord ==
    /\ \A r1, r2 \in observed : r1.url = r2.url => r1 = r2
    /\ \A r \in observed :
          \E c \in Conns : conn[c].pc = "done" /\ r = WithId(insert_data(conn[c].arg), r.id)
    /\ \A u \in Urls : Cardinality(ReturnedTrue(u)) <= 1

\* two connections passed the existence check for one url; one committed,
\* the other was refused by the INSERT, and a reader saw the row
C5_Witness ==
    \E c1, c2 \in Conns :
        /\ conn[c1].pc = "done" /\ conn[c1].ret = PyTrue
        /\ conn[c2].pc = "done" /\ conn[c2].ret = PyFalse
        /\ conn[c2].row # None
        /\ conn[c1].arg["url"] = conn[c2].arg["url"]
        /\ conn[c1].arg["name"] # conn[c2].arg["name"]
        /\ \E r \in observed : r.url = conn[c1].arg["url"]

\* C7: no stored record without a processor_base_power is in the data list
\* that export_for_modeling writes.
C7_NoBasePowerNotExported ==
    call.op = "export_for_modeling"
        => /\ \A i \in DOMAIN call.data : call.data[i].processor_base_power # None
           /\ \A r \in table :
                 r.processor_base_power = None
                     => \A i \in DOMAIN call.data : call.data[i] # modeling_row(r)

\* an export that wrote a record and left out one with cores and no power
C7_Witness ==
    /\ call.op = "export_for_modeling"
    /\ call.data # <<>>
    /\ \E r \in table : r.processor_base_power = None /\ Truthy(r.total_cores)

\* C8 as stated: the data list holds exactly the stored records whose
\* processor_base_power and total_cores are both not null, zero included.
C8_BothPresentExported ==
    call.op = "export_for_modeling"
        => \A r \in table :
              (r.processor_base_power # None /\ r.total_cores # None)
                  <=> \E i \in DOMAIN call.data : call.data[i] = modeling_row(r)

\* the row a call stored, and the coerced values of its merged specs
StoredRow == CHOOSE r \in table : r.url = call.arg["url"]
Observed(key) == Get(all_specs(GetDict(call.arg, "specifications")), key)

\* C9 as stated: a record with a total-core count n and no performance-core
\* or efficiency-core value is stored with performance_cores = n and
\* efficiency_cores = 0; a record with a split is stored with the split.
C9_LegacyFallback ==
    (IsInsert(call) /\ call.ret = PyTrue)
        => /\ ( /\ _safe_int(Observed("total_cores")) # None
                /\ _safe_int(Observed("performance_cores")) = None
                /\ _safe_int(Observed("efficiency_cores")) = None )
                => /\ StoredRow.performance_cores = _safe_int(Observed("total_cores"))
                   /\ StoredRow.efficiency_cores = PyInt(0)
           /\ ( \/ _safe_int(Observed("performance_cores")) # None
                \/ _safe_int(Observed("efficiency_cores")) # None )
                => /\ StoredRow.performance_cores = _safe_int(Observed("performance_cores"))
                   /\ StoredRow.efficiency_cores = _safe_int(Observed("efficiency_cores"))

\* C10 as stated: an observed performance-core frequency is stored as it
\* is; an absent one is filled, with the general frequency, only when the
\* fallback applied.
FallbackApplied ==
    is_legacy_architecture(_safe_int(Observed("total_cores")),
                           _safe_int(Observed("performance_cores")),
                           _safe_int(Observed("efficiency_cores")))
MirroredOnlyIfAbsent(general, p_core) ==
    /\ _safe_float(Observed(p_core)) # None => StoredRow[p_core] = _safe_float(Observed(p_core))
    /\ (_safe_float(Observed(p_core)) = None /\ StoredRow[p_core] # None)
            => FallbackApplied /\ StoredRow[p_core] = _safe_float(Observed(general))
C10_MirrorOnlyAbsent ==
    (IsInsert(call) /\ call.ret = PyTrue)
        => /\ MirroredOnlyIfAbsent("max_turbo_frequency", "performance_core_max_frequency")
           /\ MirroredOnlyIfAbsent("base_frequency", "performance_core_base_frequency")

(***************************************************************************)
(* Properties of the parser and of the coercion helpers.                   *)
(***************************************************************************)
Called(op) == call.op = op

\* C11: _clean_specification_key is idempotent: cleaning a cleaned key gives
\* the cleaned key, for labels with any number of the strippable prefixes
\* and suffixes in any order.
C11_Idempotent ==
    Called("_clean_specification_key")
        => _clean_specification_key(call.ret) = call.ret

\* C12: _clean_specification_key returns a non-empty string for every
\* non-empty label and the empty string for the empty label.
C12_Total ==
    Called("_clean_specification_key") => (call.ret = <<>> <=> call.arg = <<>>)

\* C13: in the result of _extract_specifications no key is present under
\* two different categories.
C13_OneCategoryPerKey ==
    Called("_extract_specifications")
        => \A c1, c2 \in DOMAIN call.ret :
               c1 # c2 => DOMAIN call.ret[c1] \cap DOMAIN call.ret[c2] = {}

\* C14: _categorize_specification returns the category of the earliest rule
\* of the fixed order that has a word in the key, and general when no rule
\* has one.
MatchingRules(key) ==
    {i \in 1..Len(CategoryRules) : AnyWordIn(Lower(key), CategoryRules[i].words)}
C14_FirstMatchingRule ==
    Called("_categorize_specification")
        => IF MatchingRules(call.arg) = {} THEN call.ret = "general"
           ELSE \E i \in MatchingRules(call.arg) :
                    /\ \A j \in MatchingRules(call.arg) : i <= j
                    /\ call.ret = CategoryRules[i].category

\* a key with a word of the first rule after a word of the second and of the
\* fifth, filed under the first rule's category
C14_Witness ==
    /\ Called("_categorize_specification")
    /\ {1, 2, 5} \subseteq MatchingRules(call.arg)
    /\ ~AnyWordIn(SubSeq(call.arg, 1, 6), CategoryRules[1].words)
    /\ call.ret = "cpu_specifications"

\* C15: a key that both the generic-table strategy and the modern-row
\* strategy yield holds the modern-row value in the merged result.
C15_ModernRowWins ==
    Called("_extract_specifications")
        => \A k \in DOMAIN call.arg.tables \cap DOMAIN call.arg.rows :
               \A c \in DOMAIN call.ret :
                   k \in DOMAIN call.ret[c] => call.ret[c][k] = call.arg.rows[k]

\* what each strategy produced for a key, in the order the strategies run:
\* sections, modern rows, generic tables, whole-page patterns
FromSections(page, k) ==
    LET cs == {c \in DOMAIN page.sections : k \in DOMAIN page.sections[c]}
    IN  IF cs = {} THEN None ELSE page.sections[CHOOSE c \in cs : TRUE][k]
StrategyValues(page, k) ==
    <<FromSections(page, k), Get(page.rows, k), Get(page.tables, k),
      Get(_extract_legacy_specifications(page), k)>>
Producing(vs) == {n \in 1..Len(vs) : vs[n] # None}
Latest(vs) == vs[CHOOSE n \in Producing(vs) : \A m \in Producing(vs) : m <= n]
Slot(k, v) == IF k = "total_cores" THEN _safe_int(v) ELSE Bind(_safe_float(v))

\* C16: for a key that several strategies produced, the value of the latest
\* strategy (sections, modern rows, generic tables, page patterns) is the one
\* the record holds, under whatever category, and the one in the stored slot.
C16_LatestStrategyWins ==
    Called("_scrape_cpu_page") =>
        \A k \in {"total_cores", "max_turbo_frequency"} :
            LET vs == StrategyValues(call.arg, k)
                specs == call.ret["specifications"]
            IN  Producing(vs) # {} =>
                    /\ \A c \in DOMAIN specs :
                           k \in DOMAIN specs[c] => specs[c][k] = Latest(vs)
                    /\ call.success = PyTrue =>
                           \A r \in RowsOf(table, call.ret["url"]) :
                               r[k] = Slot(k, Latest(vs))

\* C17: the lithography field that _extract_legacy_specifications returns
\* is absent or a value _clean_lithography_value accepts.
C17_LithographyValidated ==
    Called("_extract_legacy_specifications")
        => \/ "lithography" \notin DOMAIN call.ret
           \/ _clean_lithography_value(call.ret["lithography"].v) # None

\* C18: both code-name cleaners turn "Products formerly Lunar Lake:" into
\* "Lunar Lake", return None for an input that is empty, only a colon or
\* only the prefix, and never return an empty or colon-only string.
OnlyPrefix(l) ==
    /\ StartsWith(l, 1, W_products)
    /\ SpaceRunEnd(l, Len(W_products) + 1) > Len(W_products)
    /\ StartsWith(l, SpaceRunEnd(l, Len(W_products) + 1) + 1, W_formerly)
    /\ SpaceRunEnd(l, Len(W_products) + 1) + Len(W_formerly) = Len(l)
C18_CodeNameCleaned ==
    (Called("_clean_code_name") \/ Called("clean_code_name"))
        => /\ call.arg = S_LunarLake
               => call.ret = Str(<<"L", "u", "n", "a", "r", " ", "L", "a", "k", "e">>)
           /\ (call.arg.t = "str"
               /\ (call.arg.v \in {<<>>, <<":">>} \/ OnlyPrefix(Lower(call.arg.v))))
               => call.ret = None
           /\ call.ret \notin {Str(<<>>), Str(<<":">>)}

\* C19: _safe_int and _safe_float never raise; a string with digits gives
\* its first embedded integer or decimal, a string without digits gives None.
HasDigit(s) == \E i \in 1..Len(s) : IsDigit(s[i])
C19_CoercionNeverRaises ==
    (Called("_safe_int") \/ Called("_safe_float"))
        => /\ ~IsRaise(call.ret)
           /\ call.ret = None \/ call.ret.t \in {"int", "float"}
           /\ (call.arg.t = "str" /\ HasDigit(call.arg.v))
               => call.ret = IF Called("_safe_int")
                             THEN PyInt(DigitsToInt(FirstDigitRun(call.arg.v)))
                             ELSE FirstDecimal(call.arg.v)
           /\ (call.arg.t = "str" /\ ~HasDigit(call.arg.v)) => call.ret = None

RECURSIVE Flatten(_)
Flatten(lists) == IF lists = <<>> THEN <<>> ELSE Head(lists) \o Flatten(Tail(lists))

\* the urls of the lists before the current one, then those of the current
\* list that the page loop has passed
Passed ==
    IF crawler.pc = "page"
    THEN Flatten(SubSeq(crawler.found, 1, Len(crawler.found) - 1))
             \o SubSeq(crawler.cpu_urls, 1, crawler.i - 1)
    ELSE Flatten(crawler.found)

\* every url of every truncated list is attempted, whatever became of the
\* urls before it
EveryFoundUrlAttempted == crawler.attempted = Passed

\* C20: in crawl() every url of every (max_pages-truncated) list is attempted
\* whatever the earlier urls ended in, and crawl() returns its list: no
\* exception leaves it.
C20_CrawlNeverStopped ==
    /\ EveryFoundUrlAttempted
    /\ crawler.pc # "raised"

(***************************************************************************)
(* Properties of the requests of a crawl.                                  *)
(***************************************************************************)
\* C21: in every run of crawl(), the wait between any two consecutive GETs
\* (listing to page, page to page, page to next listing, retry to retry) is
\* at least the configured delay.
C21_MinimumDelay == \A gap \in crawler.gaps : gap >= crawler.delay

\* C23: with max_pages > 0, one call of crawl() requests at most max_pages
\* detail pages in total, over all base urls.
C23_MaxPagesTotal == crawler.max_pages > 0 => crawler.fetched <= crawler.max_pages

Requesting == Called("_make_request")

\* C29: _make_request terminates: it issues at most max_retries GETs, none
\* after a success, returns the response of the first successful GET and
\* returns None once the last attempt has failed or when max_retries is 0.
C29_MakeRequestTerminates ==
    /\ [](Requesting =>
             /\ call.gets <= call.max_retries
             /\ Len(call.errors) \in {call.gets, call.gets - 1}
             /\ call.pc = "returned" =>
                    \/ /\ call.ret # None
                       /\ call.gets = Len(call.errors) + 1
                    \/ /\ call.ret = None
                       /\ call.gets = call.max_retries
                       /\ Len(call.errors) = call.gets)
    /\ [][Requesting /\ call.pc = "returned" => call' = call]_vars
    /\ (Requesting ~> (Requesting /\ call.pc = "returned"))

C29_Witness ==
    /\ Requesting
    /\ call.pc = "returned"
    /\ call.ret # None
    /\ call.gets = call.max_retries
    /\ Len(call.slept) >= 2

(***************************************************************************)
(* Properties of the updater.                                              *)
(***************************************************************************)
FetchedUrls == {updater.fetched[n].url : n \in 1..Len(updater.fetched)}

\* C22: every url fetched or inserted in the add phase of run_update was
\* absent from the stored urls read at the start of the run, and no page
\* whose url is stored when it is fetched is fetched again.
C22_StoredNeverFetched ==
    \A n \in 1..Len(updater.fetched) :
        /\ updater.fetched[n].url \notin updater.existing_urls
        /\ ~updater.fetched[n].stored

\* C22, amended: every url fetched or inserted in the add phase was absent
\* from the stored urls read at the start of the run, which are the urls
\* stored before the run; a url that this run stored itself (listed under
\* two families) is fetched again.
C22_SeenAtStartNeverFetched ==
    /\ FetchedUrls \cap updater.existing_urls = {}
    /\ updater.pc # "idle" =>
           /\ updater.existing_urls \subseteq get_existing_urls(table)
           /\ get_existing_urls(table) \subseteq updater.existing_urls \cup FetchedUrls

C22_Witness ==
    /\ updater.pc = "returned"
    /\ updater.listed \cap updater.existing_urls # {}
    /\ Len(updater.fetched) > 0
    /\ \E n \in 1..Len(updater.fetched) : updater.fetched[n].stored

\* C28: whenever add_new_products returns, successful + failed + skipped
\* equals total_new: every candidate url is counted in exactly one bucket.
C28_AccountingConserved ==
    (updater.pc = "returned" /\ updater.stats.total_new > 0) =>
        updater.stats.successful + updater.stats.failed + updater.stats.skipped
            = updater.stats.total_new

(***************************************************************************)
(* Properties of the URL classifier.                                       *)
(***************************************************************************)
ContainsAny(s, words) == \E w \in words : Contains(s, w)

\* an intel.com url whose path names a processor product
NamesProcessor(url) ==
    /\ Contains(Lower(url), <<"i", "n", "t", "e", "l", ".", "c", "o", "m">>)
    /\ ContainsAny(Lower(url), {<<"/", "p", "r", "o", "c", "e", "s", "s", "o", "r", "s", "/">>, <<"/", "c", "p", "u", "/">>, <<"c", "o", "r", "e">>, <<"x", "e", "o", "n">>, <<"p", "e", "n", "t", "i", "u", "m">>})

\* a url for graphics, support or about pages that names no processor
NonCpuContent(url) ==
    /\ ContainsAny(Lower(url), {<<"g", "r", "a", "p", "h", "i", "c", "s">>, <<"s", "u", "p", "p", "o", "r", "t">>, <<"a", "b", "o", "u", "t">>})
    /\ ~ContainsAny(Lower(url), cpu_indicators \cup {<<"/", "p", "r", "o", "c", "e", "s", "s", "o", "r", "s", "/">>, <<"/", "c", "p", "u", "/">>})

\* C24: _is_cpu_url accepts every intel.com url whose path names a processor
\* product and rejects every url for non-CPU content.
C24_ProcessorUrlsAccepted ==
    Called("_is_cpu_url") =>
        /\ NamesProcessor(call.arg) => call.ret
        /\ NonCpuContent(call.arg) => ~call.ret

\* C25: _is_cpu_url returns False for every url that contains a marketing
\* exclusion marker, whatever else the url contains.
C25_MarketingExcluded ==
    Called("_is_cpu_url") =>
        (ContainsAny(Lower(call.arg), marketing_excludes) => ~call.ret)

\* C25 (as the code has it): _is_cpu_url returns False for every url that
\* contains a marketing exclusion marker and passes none of the three priority
\* tests.
C25_MarketingExcludedUnlessPriority ==
    Called("_is_cpu_url") =>
        ((ContainsAny(Lower(call.arg), marketing_excludes) /\ ~priority(Lower(call.arg)))
            => ~call.ret)

\* a US English url with a specification pattern and a CPU indicator that is
\* rejected for its marketing marker alone
C25_Witness ==
    /\ Called("_is_cpu_url")
    /\ _is_us_english_url(call.arg)
    /\ ContainsAny(Lower(call.arg), marketing_excludes)
    /\ ~priority(Lower(call.arg))
    /\ cpu_spec_patterns(Lower(call.arg))
    /\ \E indicator \in cpu_indicators : Contains(Lower(call.arg), indicator)
    /\ ~call.ret

\* C27: every url that extract_cpu_urls returns is accepted by _is_cpu_url,
\* also the urls found in scripts, data attributes, hidden inputs and JSON-LD.
C27_ExtractedUrlsClassified ==
    Called("extract_cpu_urls") =>
        \A n \in 1..Len(call.ret) : _is_cpu_url(call.ret[n])

\* the urls of a set of rows
UrlsOf(rows) == {r.url : r \in rows}

\* C26: after merge_databases has merged source into target, every url of
\* the source or of the target is in the target exactly once.
C26_MergedOncePerUrl ==
    (Called("merge_databases") /\ call.ret = PyTrue) =>
        \A u \in UrlsOf(call.source) \cup UrlsOf(call.target) :
            Cardinality(RowsOf(table, u)) = 1

\* C30: update_code_names is idempotent: a run that follows a run changes
\* no row, so running the script twice leaves every row as running it once.
C30_BackfillIdempotent ==
    [][(call.op = "update_code_names" /\ call'.op = "update_code_names")
            => table' = table]_vars

\* the script ran twice in a row on rows to which it had given a code name
\* that their insert had not
C30_Witness ==
    /\ call.op = "update_code_names"
    /\ call.runs = 2
    /\ call.updated >= 1
    /\ \E r \in table :
          /\ r.code_name # None
          /\ r.code_name # _clean_code_name(Get(all_specs(r.additional_specs.v), "code_name"))

====
